---- MODULE Spec2Model ----
(***************************************************************************)
(* Deadline-driven aggregation and lobby quorum engine of the lunch        *)
(* pre-order server: services/deadline-scheduler.ts, the repositories of   *)
(* db/repository.ts it calls and the API handlers that change the same     *)
(* tables.                                                                 *)
(***************************************************************************)
EXTENDS Integers, Sequences, FiniteSets, Bags, TLC

(***************************************************************************)
(* Bounds of the model.                                                    *)
(***************************************************************************)
MaxOrders == 2
MaxUsers == 3
MaxReservations == 3

(***************************************************************************)
(* Configuration: utils/order-config.ts, utils/config.ts.                  *)
(***************************************************************************)
orderLeadMinutes == 150
lobbyLeadMinutes == 150
minLobbyParticipants == 2

Slot1300 == <<"1", "3", ":", "0", "0">>
Slot1845 == <<"1", "8", ":", "4", "5">>
Slot2300 == <<"2", "3", ":", "0", "0">>

deliverySlots ==
  << [id |-> Slot1300, time |-> Slot1300],
     [id |-> Slot1845, time |-> Slot1845],
     [id |-> Slot2300, time |-> Slot2300] >>

SlotIds == {deliverySlots[i].id : i \in 1..Len(deliverySlots)}

(***************************************************************************)
(* Slot deadline arithmetic.                                               *)
(***************************************************************************)
\* Number(c) of one decimal digit.
DigitValue ==
  [c \in {"0", "1", "2", "3", "4", "5", "6", "7", "8", "9"} |->
     CASE c = "0" -> 0 [] c = "1" -> 1 [] c = "2" -> 2 [] c = "3" -> 3
       [] c = "4" -> 4 [] c = "5" -> 5 [] c = "6" -> 6 [] c = "7" -> 7
       [] c = "8" -> 8 [] c = "9" -> 9]

\* Number(str) of the decimal digits str[from..to], most significant first.
RECURSIVE Number(_, _, _)
Number(str, from, to) ==
  IF to < from THEN 0
  ELSE 10 * Number(str, from, to - 1) + DigitValue[str[to]]

\* const [hours, minutes] = time.split(':').map(Number)
toMinutes(time) ==
  LET colon == CHOOSE k \in 1..Len(time) : time[k] = ":"
      hours == Number(time, 1, colon - 1)
      minutes == Number(time, colon + 1, Len(time))
  IN  hours * 60 + minutes

Max(a, b) == IF a >= b THEN a ELSE b

\* A deadline that counts as passed at the deadline minute itself.
DeadlinePassedInclusive(slotId, leadMinutes, nowMinutes) ==
  nowMinutes >= Max(toMinutes(slotId) - leadMinutes, 0)

\* toMinutes of the configured slot ids, computed once.
ConfiguredMinutes == [t \in SlotIds |-> toMinutes(t)]

\* The body shared by isDeadlinePassedForSlot and isLobbyDeadlinePassed.
DeadlinePassed(slotId, leadMinutes, nowMinutes) ==
  LET slotMinutes == IF slotId \in SlotIds THEN ConfiguredMinutes[slotId]
                     ELSE toMinutes(slotId)
      deadlineMinutes == Max(slotMinutes - leadMinutes, 0)
  IN  nowMinutes > deadlineMinutes

isDeadlinePassedForSlot(slotId, nowMinutes) ==
  DeadlinePassed(slotId, orderLeadMinutes, nowMinutes)

\* A lobby deadline that lies at the start of the day for every slot.
isLobbyDeadlinePassedFromDayStart(slotId, nowMinutes) == nowMinutes > 0

isLobbyDeadlinePassed(slotId, nowMinutes) ==
  DeadlinePassed(slotId, lobbyLeadMinutes, nowMinutes)

(***************************************************************************)
(* Domains of the inputs.                                                  *)
(***************************************************************************)
Users == 1..MaxUsers
Restaurants == {1, 2}
Buildings == {1}
Days == {1}
ClockReadings == {630, 631, 976}
OrderSlots == {Slot1300, Slot1845}
SweepIds == {1, 2}
Pairs == Restaurants \X Buildings

\* total_price of the order a user submits.
PriceOf(u) == 50 * (u + 1)

\* The orders in which a SELECT DISTINCT without ORDER BY may return pairs S.
Orderings(S) ==
  {p \in [1..Cardinality(S) -> S] : \A i, j \in DOMAIN p : i # j => p[i] # p[j]}

(***************************************************************************)
(* State.                                                                  *)
(***************************************************************************)
VARIABLES
  clock,          \* [day, min]: the wall clock in the application time zone
  orders,         \* table orders, indexed by id
  group_orders,   \* table group_orders, indexed by id
  restaurants,    \* ids of the rows of table restaurants
  buildings,      \* ids of the rows of table buildings
  sweeps,         \* the in-flight calls of processSlotDeadlines
  sendLog,        \* the sendGroupOrder calls made so far
  ended,          \* <<summary>> right after a step in which a sweep ended, else <<>>
  users,          \* ids of the rows of table users
  restaurant_buildings,  \* table restaurant_buildings: <<restaurant, building>> links
  reservations,   \* table slot_lobby_reservations
  lobbyLog,       \* the notifyLobbyCancelled calls made so far
  probe,          \* one call of a deadline predicate: its arguments and result
  scheduler,      \* [process, timer, handle, sendsAtStop]: the process, the interval
                  \* timer of startDeadlineScheduler, the stop handle its caller
                  \* holds, and the number of sendGroupOrder calls made when the
                  \* handle was called (-1 before)
  settledNotices, \* the sendGroupOrder and notifyLobbyCancelled calls that have
                  \* settled, each with its outcome
  twin,           \* the store of a second run of the same ticks under a no-op sink
  activated       \* history: the keys <<restaurant, building, slot, day>> a lobby
                  \* sweep has found at or above minLobbyParticipants after their
                  \* lobby deadline (the code keeps no such record)

vars ==
  <<clock, orders, group_orders, restaurants, buildings, sweeps, sendLog, ended,
    users, restaurant_buildings, reservations, lobbyLog, probe, scheduler,
    settledNotices, twin, activated>>

lobbyVars == <<users, restaurant_buildings, reservations, lobbyLog>>

\* What the handlers and the sweeps of one run leave alone.
otherVars == <<probe, scheduler, settledNotices, twin, activated>>

getTodayInAppTz == clock.day
getNowMinutesInAppTz == clock.min

\* No call of a deadline predicate is being looked at.
NoProbe ==
  [time |-> <<>>, hours |-> 0, minutes |-> 0, lead |-> 0, now |-> 0, asked |-> "none",
   passed |-> FALSE]

\* startDeadlineScheduler has returned: the process runs, the timer is armed
\* and the caller holds the function that clears it.
SchedulerStarted ==
  [process |-> "running", timer |-> TRUE, handle |-> TRUE, sendsAtStop |-> -1]

\* No second run is being followed.
NoTwin == [group_orders |-> <<>>, reservations |-> EmptyBag, sweeps |-> <<>>]

IdleSweep ==
  [pc |-> "idle", now |-> 0, today |-> 0, slotIdx |-> 0, groups |-> <<>>,
   elig |-> {}, quiet |-> TRUE, call |-> 0]

(***************************************************************************)
(* Repositories (db/repository.ts).                                        *)
(***************************************************************************)
\* WHERE order_date = ? OR (order_date IS NULL AND date(created_at) = ?);
\* a NULL order_date is written 0 (days count from 1).
OrderDateMatches(o, orderDate) ==
  \/ o.order_date = orderDate
  \/ (o.order_date = 0 /\ o.created_date = orderDate)

\* The ids of a set of rows, newest first (ORDER BY created_at DESC).
RECURSIVE NewestFirst(_)
NewestFirst(ids) ==
  IF ids = {} THEN <<>>
  ELSE LET m == CHOOSE i \in ids : \A j \in ids : j <= i
       IN  <<m>> \o NewestFirst(ids \ {m})

\* The orders of a key whatever their status.
findPendingForGroupAnyStatus(deliverySlot, buildingId, restaurantId, orderDate) ==
  LET ids == {i \in DOMAIN orders :
                /\ orders[i].delivery_slot = deliverySlot
                /\ orders[i].building_id = buildingId
                /\ orders[i].restaurant_id = restaurantId
                /\ OrderDateMatches(orders[i], orderDate)}
      sorted == NewestFirst(ids)
  IN  [k \in DOMAIN sorted |-> orders[sorted[k]]]

\* OrderRepository.findPendingForGroup
findPendingForGroup(deliverySlot, buildingId, restaurantId, orderDate) ==
  LET ids == {i \in DOMAIN orders :
                /\ orders[i].delivery_slot = deliverySlot
                /\ orders[i].building_id = buildingId
                /\ orders[i].restaurant_id = restaurantId
                /\ orders[i].status = "pending"
                /\ OrderDateMatches(orders[i], orderDate)}
      sorted == NewestFirst(ids)
  IN  [k \in DOMAIN sorted |-> orders[sorted[k]]]

\* A status list that counts a cancelled order as active.
ActiveStatusesWithCancelled ==
  {"pending", "confirmed", "restaurant_confirmed", "preparing", "ready", "cancelled"}

\* status IN (...) of findActiveByUserAndSlot
ActiveStatuses == {"pending", "confirmed", "restaurant_confirmed", "preparing", "ready"}

\* OrderRepository.findActiveByUserAndSlot: the ids of the matching rows
\* (the code takes the newest one; it only tests for presence).
findActiveByUserAndSlot(userId, buildingId, restaurantId, deliverySlot, orderDate) ==
  {i \in DOMAIN orders :
     /\ orders[i].user_id = userId
     /\ orders[i].building_id = buildingId
     /\ orders[i].restaurant_id = restaurantId
     /\ orders[i].delivery_slot = deliverySlot
     /\ orders[i].status \in ActiveStatuses
     /\ OrderDateMatches(orders[i], orderDate)}

\* OrderRepository.create: order_date is today in the application time zone.
OrderCreate(o) ==
  Append(orders,
         [id |-> Len(orders) + 1, user_id |-> o.user_id,
          restaurant_id |-> o.restaurant_id, building_id |-> o.building_id,
          total_price |-> o.total_price, delivery_slot |-> o.delivery_slot,
          status |-> o.status, order_date |-> getTodayInAppTz,
          created_date |-> getTodayInAppTz])

\* A group_orders row that only counts for its key while it is still open.
GroupKeyMatchesOpen(row, restaurantId, buildingId, deliverySlot, orderDate) ==
  /\ row.restaurant_id = restaurantId
  /\ row.building_id = buildingId
  /\ row.delivery_slot = deliverySlot
  /\ row.order_date = orderDate
  /\ row.status = "pending_restaurant"

\* restaurant_id = ? AND building_id = ? AND delivery_slot = ? AND order_date = ?
\* the comparison of the key columns of a group_orders row.
GroupKeyMatches(row, restaurantId, buildingId, deliverySlot, orderDate) ==
  /\ row.restaurant_id = restaurantId
  /\ row.building_id = buildingId
  /\ row.delivery_slot = deliverySlot
  /\ row.order_date = orderDate

\* A lookup that never finds a row.
findByRestaurantAndSlotNever(gos, restaurantId, buildingId, deliverySlot, orderDate) ==
  {g \in DOMAIN gos : FALSE}

\* GroupOrderRepository.findByRestaurantAndSlot: the ids of the matching rows.
findByRestaurantAndSlot(gos, restaurantId, buildingId, deliverySlot, orderDate) ==
  {g \in DOMAIN gos :
     GroupKeyMatches(gos[g], restaurantId, buildingId, deliverySlot, orderDate)}

\* UNIQUE(restaurant_id, building_id, delivery_slot, order_date) of group_orders.
GroupOrderUnique(gos, data) ==
  \A g \in DOMAIN gos :
     ~GroupKeyMatches(gos[g], data.restaurant_id, data.building_id,
                      data.delivery_slot, data.order_date)

\* An INSERT that stores every row as accepted.
GroupOrderCreateAccepted(gos, data) ==
  [threw |-> FALSE,
   gos |-> Append(gos, [id |-> Len(gos) + 1,
                        restaurant_id |-> data.restaurant_id,
                        building_id |-> data.building_id,
                        delivery_slot |-> data.delivery_slot,
                        order_date |-> data.order_date,
                        status |-> "accepted"])]

\* GroupOrderRepository.create: the table after the INSERT; the INSERT throws
\* on the UNIQUE constraint and leaves the table as it was.
GroupOrderCreate(gos, data) ==
  IF GroupOrderUnique(gos, data)
  THEN [threw |-> FALSE,
        gos |-> Append(gos, [id |-> Len(gos) + 1,
                             restaurant_id |-> data.restaurant_id,
                             building_id |-> data.building_id,
                             delivery_slot |-> data.delivery_slot,
                             order_date |-> data.order_date,
                             status |-> data.status])]
  ELSE [threw |-> TRUE, gos |-> gos]

(***************************************************************************)
(* Order aggregation sweep: processSlotDeadlines.                          *)
(***************************************************************************)
\* A DISTINCT query that returns its first row only.
DistinctGroupsFirstRow(slotId, today, ord) ==
  LET found == {<<orders[i].restaurant_id, orders[i].building_id>> :
                  i \in {j \in DOMAIN orders :
                           /\ orders[j].delivery_slot = slotId
                           /\ orders[j].status = "pending"
                           /\ OrderDateMatches(orders[j], today)}}
      rows == SelectSeq(ord, LAMBDA p : p \in found)
  IN  IF rows = <<>> THEN <<>> ELSE <<Head(rows)>>

\* SELECT DISTINCT restaurant_id, building_id FROM orders WHERE delivery_slot = ?
\* AND status = 'pending' AND (order_date = ? OR ...), returned in order ord.
DistinctGroups(slotId, today, ord) ==
  LET found == {<<orders[i].restaurant_id, orders[i].building_id>> :
                  i \in {j \in DOMAIN orders :
                           /\ orders[j].delivery_slot = slotId
                           /\ orders[j].status = "pending"
                           /\ OrderDateMatches(orders[j], today)}}
  IN  SelectSeq(ord, LAMBDA p : p \in found)

\* The total_price of the oldest order only.
TotalPriceOfOldest(os) == os[Len(os)].total_price

RECURSIVE SumTotalPrice(_)
SumTotalPrice(os) ==
  IF os = <<>> THEN 0 ELSE Head(os).total_price + SumTotalPrice(Tail(os))

\* A call that always carries the id of the first group order of the table.
PayloadOfFirstGroupOrder(groupOrder, os) ==
  [groupOrderId |-> 1,
   restaurantId |-> groupOrder.restaurant_id,
   buildingId |-> groupOrder.building_id,
   deliverySlot |-> groupOrder.delivery_slot,
   orderDate |-> groupOrder.order_date,
   orders |-> [k \in DOMAIN os |->
                 [id |-> os[k].id, userId |-> os[k].user_id,
                  totalPrice |-> os[k].total_price]],
   totalAmount |-> SumTotalPrice(os),
   participantCount |-> Len(os)]

\* The argument of the sendGroupOrder call for a new group order.
Payload(groupOrder, os) ==
  [groupOrderId |-> groupOrder.id,
   restaurantId |-> groupOrder.restaurant_id,
   buildingId |-> groupOrder.building_id,
   deliverySlot |-> groupOrder.delivery_slot,
   orderDate |-> groupOrder.order_date,
   orders |-> [k \in DOMAIN os |->
                 [id |-> os[k].id, userId |-> os[k].user_id,
                  totalPrice |-> os[k].total_price]],
   totalAmount |-> SumTotalPrice(os),
   participantCount |-> Len(os)]

\* A check of the two records that never fails.
RecordMissingNever(restaurant_id, building_id) == FALSE

\* !restaurant || !building after restaurantRepo.findById and
\* buildingRepo.findById.
RecordMissing(restaurant_id, building_id) ==
  restaurant_id \notin restaurants \/ building_id \notin buildings

\* One run of the loop of processSlotDeadlines from the position (i, groups)
\* up to the next await ("await"), the end of the loop ("done") or a throw of
\* create on the UNIQUE constraint ("constraint"). i is the
\* index of the slot whose pairs are being visited, groups the pairs not yet
\* visited, calls the database calls made so far in this run: <<i, <<0, 0>>>>
\* for the DISTINCT query of slot i, <<i, pair>> for the calls made for a pair.
RECURSIVE RunSweep(_, _, _, _, _, _, _)
RunSweep(i, groups, nowMinutes, today, gos, ord, calls) ==
  IF groups # <<>>
  THEN LET restaurant_id == Head(groups)[1]
           building_id == Head(groups)[2]
           slot == deliverySlots[i]
           visited == Append(calls, <<i, Head(groups)>>)
           existing ==
             findByRestaurantAndSlot(gos, restaurant_id, building_id, slot.id, today)
           os == findPendingForGroup(slot.id, building_id, restaurant_id, today)
           created ==
             GroupOrderCreate(gos, [restaurant_id |-> restaurant_id,
                                    building_id |-> building_id,
                                    delivery_slot |-> slot.id, order_date |-> today,
                                    status |-> "pending_restaurant"])
       IN  IF existing # {}
           THEN RunSweep(i, Tail(groups), nowMinutes, today, gos, ord, visited)
           ELSE IF Len(os) = 0
           THEN RunSweep(i, Tail(groups), nowMinutes, today, gos, ord, visited)
           ELSE IF RecordMissing(restaurant_id, building_id)
           THEN RunSweep(i, Tail(groups), nowMinutes, today, gos, ord, visited)
           ELSE IF created.threw
           THEN [pc |-> "constraint", slotIdx |-> i, groups |-> Tail(groups),
                 gos |-> gos, send |-> <<>>, calls |-> visited]
           ELSE [pc |-> "await", slotIdx |-> i, groups |-> Tail(groups),
                 gos |-> created.gos,
                 send |-> <<Payload(created.gos[Len(created.gos)], os)>>,
                 calls |-> visited]
  ELSE IF i >= Len(deliverySlots)
  THEN [pc |-> "done", slotIdx |-> i, groups |-> <<>>, gos |-> gos,
        send |-> <<>>, calls |-> calls]
  ELSE IF ~isDeadlinePassedForSlot(deliverySlots[i + 1].id, nowMinutes)
  THEN RunSweep(i + 1, <<>>, nowMinutes, today, gos, ord, calls)
  ELSE LET distinctGroups == DistinctGroups(deliverySlots[i + 1].id, today, ord)
       IN  RunSweep(i + 1, distinctGroups, nowMinutes, today, gos, ord,
                    Append(calls, <<i + 1, <<0, 0>>>>))

(***************************************************************************)
(* Lobby quorum sweep: LobbyRepository and processLobbyDeadlines.          *)
(***************************************************************************)
\* users.telegram_user_id of the user row with this id.
TelegramIdOf(userId) == 100 + userId

\* The table is a bag of rows (the row id left out): a row is in it as many
\* times as the table holds it.
ReservationRow(buildingId, restaurantId, deliverySlot, orderDate, userId) ==
  [building_id |-> buildingId, restaurant_id |-> restaurantId,
   delivery_slot |-> deliverySlot, order_date |-> orderDate, user_id |-> userId]

\* The bag rs without the rows in gone.
WithoutRows(rs, gone) == [x \in BagToSet(rs) \ gone |-> rs[x]]

\* WHERE building_id = ? AND restaurant_id = ? AND delivery_slot = ? AND
\* order_date = ?: the distinct rows of a key.
SlotReservations(rs, buildingId, restaurantId, deliverySlot, orderDate) ==
  {x \in BagToSet(rs) : /\ x.building_id = buildingId
                        /\ x.restaurant_id = restaurantId
                        /\ x.delivery_slot = deliverySlot
                        /\ x.order_date = orderDate}

\* A plain INSERT into a table without the UNIQUE constraint.
addReservationAgain(rs, buildingId, restaurantId, deliverySlot, orderDate, userId) ==
  rs (+) SetToBag({ReservationRow(buildingId, restaurantId, deliverySlot, orderDate,
                                  userId)})

\* LobbyRepository.addReservation: INSERT OR IGNORE under
\* UNIQUE(building_id, restaurant_id, delivery_slot, order_date, user_id).
addReservation(rs, buildingId, restaurantId, deliverySlot, orderDate, userId) ==
  LET row == ReservationRow(buildingId, restaurantId, deliverySlot, orderDate, userId)
  IN  IF BagIn(row, rs) THEN rs ELSE rs (+) SetToBag({row})

\* A DELETE that forgets the user: it removes the whole key.
removeReservationOfKey(rs, buildingId, restaurantId, deliverySlot, orderDate, userId) ==
  WithoutRows(rs, SlotReservations(rs, buildingId, restaurantId, deliverySlot, orderDate))

\* LobbyRepository.removeReservation
removeReservation(rs, buildingId, restaurantId, deliverySlot, orderDate, userId) ==
  WithoutRows(rs, {ReservationRow(buildingId, restaurantId, deliverySlot, orderDate,
                                  userId)})

\* A count that ignores which restaurant a reservation is for.
countReservationsOfBuilding(rs, buildingId, restaurantId, deliverySlot, orderDate) ==
  BagCardinality([x \in {y \in BagToSet(rs) : /\ y.building_id = buildingId
                                              /\ y.delivery_slot = deliverySlot
                                              /\ y.order_date = orderDate} |-> rs[x]])

\* LobbyRepository.countReservations: SELECT COUNT(*)
countReservations(rs, buildingId, restaurantId, deliverySlot, orderDate) ==
  BagCardinality([x \in SlotReservations(rs, buildingId, restaurantId, deliverySlot,
                                         orderDate) |-> rs[x]])

\* LobbyRepository.hasUserReservation: COUNT(*) > 0 over the JOIN with users.
hasUserReservation(rs, telegramUserId, buildingId, restaurantId, deliverySlot, orderDate) ==
  \E x \in SlotReservations(rs, buildingId, restaurantId, deliverySlot, orderDate) :
     x.user_id \in users /\ TelegramIdOf(x.user_id) = telegramUserId

RECURSIVE AscendingSeq(_)
AscendingSeq(S) ==
  IF S = {} THEN <<>>
  ELSE LET m == CHOOSE i \in S : \A j \in S : i <= j
       IN  <<m>> \o AscendingSeq(S \ {m})

\* n times the value v.
Repeat(v, n) == [k \in 1..n |-> v]

\* The telegram ids of the rows of a key: one per row whose user has a users
\* row (JOIN users), in the order of the user ids.
RECURSIVE JoinedTelegramIds(_, _, _)
JoinedTelegramIds(rs, rows, ids) ==
  IF ids = <<>> THEN <<>>
  ELSE LET row == CHOOSE x \in rows : x.user_id = Head(ids)
       IN  Repeat(TelegramIdOf(Head(ids)), rs[row])
             \o JoinedTelegramIds(rs, rows, Tail(ids))

\* A bulk delete whose WHERE clause forgets the restaurant.
deleteReservationsForSlotOfBuilding(rs, buildingId, restaurantId, deliverySlot, orderDate) ==
  LET rows == {x \in BagToSet(rs) : /\ x.building_id = buildingId
                                    /\ x.delivery_slot = deliverySlot
                                    /\ x.order_date = orderDate}
      joined == {y \in rows : y.user_id \in users /\ y.restaurant_id = restaurantId}
      ids == AscendingSeq({x.user_id : x \in joined})
  IN  [telegramIds |-> JoinedTelegramIds(rs, joined, ids),
       reservations |-> WithoutRows(rs, rows)]

\* A bulk "delete" that books every user of the key once more.
deleteReservationsForSlotRebooked(rs, buildingId, restaurantId, deliverySlot, orderDate) ==
  LET rows == SlotReservations(rs, buildingId, restaurantId, deliverySlot, orderDate)
      joined == {y \in rows : y.user_id \in users}
      ids == AscendingSeq({x.user_id : x \in joined})
  IN  [telegramIds |-> JoinedTelegramIds(rs, joined, ids),
       reservations |-> rs (+) SetToBag(rows)]

\* The SELECT of the bulk delete without its DELETE.
deleteReservationsForSlotSelectOnly(rs, buildingId, restaurantId, deliverySlot, orderDate) ==
  LET rows == SlotReservations(rs, buildingId, restaurantId, deliverySlot, orderDate)
      joined == {y \in rows : y.user_id \in users}
      ids == AscendingSeq({x.user_id : x \in joined})
  IN  [telegramIds |-> JoinedTelegramIds(rs, joined, ids),
       reservations |-> rs]

\* LobbyRepository.deleteReservationsForSlot: the telegram ids the SELECT ...
\* JOIN users returns, and the table after the DELETE.
deleteReservationsForSlot(rs, buildingId, restaurantId, deliverySlot, orderDate) ==
  LET rows == SlotReservations(rs, buildingId, restaurantId, deliverySlot, orderDate)
      joined == {y \in rows : y.user_id \in users}
      ids == AscendingSeq({x.user_id : x \in joined})
  IN  [telegramIds |-> JoinedTelegramIds(rs, joined, ids),
       reservations |-> WithoutRows(rs, rows)]

\* The notifyLobbyCancelled calls for the users of one cancelled lobby; sends
\* is the number of sendGroupOrder calls made before the call.
Notices(telegramIds, slot, buildingId, restaurantId, today) ==
  [k \in DOMAIN telegramIds |->
     [telegramUserId |-> telegramIds[k], slotTime |-> slot.time,
      building_id |-> buildingId, restaurant_id |-> restaurantId,
      order_date |-> today, sends |-> Len(sendLog)]]

\* No visit of the lobby sweep at which the store throws.
NoFailure == <<0, <<0, 0>>>>

\* The loop of processLobbyDeadlines from slot i, pairs left to visit. The
\* store throws in the countReservations call of the visit failAt (a slot
\* index and a pair); what the earlier visits did stays done.
RECURSIVE RunLobby(_, _, _, _, _, _, _, _)
RunLobby(i, pairs, allPairs, nowMinutes, today, rs, log, failAt) ==
  IF pairs # <<>>
  THEN LET restaurant_id == Head(pairs)[1]
           building_id == Head(pairs)[2]
           slot == deliverySlots[i]
           count == countReservations(rs, building_id, restaurant_id, slot.id, today)
           deleted ==
             deleteReservationsForSlot(rs, building_id, restaurant_id, slot.id, today)
       IN  IF failAt = <<i, Head(pairs)>>
           THEN [threw |-> TRUE, reservations |-> rs, log |-> log]
           ELSE IF count >= minLobbyParticipants
           THEN RunLobby(i, Tail(pairs), allPairs, nowMinutes, today, rs, log, failAt)
           ELSE IF count = 0
           THEN RunLobby(i, Tail(pairs), allPairs, nowMinutes, today, rs, log, failAt)
           ELSE RunLobby(i, Tail(pairs), allPairs, nowMinutes, today,
                         deleted.reservations,
                         log \o Notices(deleted.telegramIds, slot, building_id,
                                        restaurant_id, today),
                         failAt)
  ELSE IF i >= Len(deliverySlots)
  THEN [threw |-> FALSE, reservations |-> rs, log |-> log]
  ELSE IF ~isLobbyDeadlinePassed(deliverySlots[i + 1].id, nowMinutes)
  THEN RunLobby(i + 1, <<>>, allPairs, nowMinutes, today, rs, log, failAt)
  ELSE RunLobby(i + 1, allPairs, allPairs, nowMinutes, today, rs, log, failAt)

\* processLobbyDeadlines over the table rs: the pairs are the rows of
\* SELECT DISTINCT building_id, restaurant_id FROM restaurant_buildings.
processLobbyDeadlinesOf(ord, rs, failAt) ==
  LET pairs == SelectSeq(ord, LAMBDA p : p \in restaurant_buildings)
  IN  RunLobby(0, <<>>, pairs, getNowMinutesInAppTz, getTodayInAppTz,
               rs, lobbyLog, failAt)

\* processLobbyDeadlines with a store that answers every call.
processLobbyDeadlines(ord) == processLobbyDeadlinesOf(ord, reservations, NoFailure)

(***************************************************************************)
(* Initial state: migrated database, users, one restaurant and the         *)
(* building registered, no orders.                                         *)
(***************************************************************************)
Init ==
  /\ clock = [day |-> 1, min |-> 630]
  /\ orders = <<>>
  /\ group_orders = <<>>
  /\ restaurants = {1}
  /\ buildings = Buildings
  /\ sweeps = [s \in SweepIds |-> IdleSweep]
  /\ sendLog = <<>>
  /\ ended = <<>>
  /\ users = Users
  /\ restaurant_buildings = {}
  /\ reservations = EmptyBag
  /\ lobbyLog = <<>>
  /\ probe = NoProbe
  /\ scheduler = SchedulerStarted
  /\ settledNotices = {}
  /\ twin = NoTwin
  /\ activated = {}

(***************************************************************************)
(* The clock.                                                              *)
(***************************************************************************)
AdvanceClock ==
  /\ \/ \E m \in ClockReadings :
          /\ m > clock.min
          /\ clock' = [clock EXCEPT !.min = m]
     \/ /\ clock.day + 1 \in Days
        /\ clock' = [day |-> clock.day + 1,
                     min |-> CHOOSE m \in ClockReadings : \A n \in ClockReadings : m <= n]
  /\ ended' = <<>>
  /\ UNCHANGED <<otherVars, orders, group_orders, restaurants, buildings, sweeps, sendLog,
                 lobbyVars>>

(***************************************************************************)
(* Handlers that change the tables the aggregation sweep reads.            *)
(***************************************************************************)
\* A sweep in flight is quiet while no handler has changed a table it reads.
Disturbed ==
  [s \in SweepIds |->
     IF sweeps[s].pc = "idle" THEN sweeps[s]
     ELSE [sweeps[s] EXCEPT !.quiet = FALSE, !.elig = {}]]

\* POST /api/orders answers 400 user_order_already_exists_for_slot when the
\* user has an active order for the key today; otherwise it creates the order.
PostOrderAccepted(user_id, restaurant_id, building_id, delivery_slot) ==
  findActiveByUserAndSlot(user_id, building_id, restaurant_id, delivery_slot,
                          getTodayInAppTz) = {}

\* POST /api/orders
CreateOrder(user_id, restaurant_id, building_id, delivery_slot) ==
  /\ Len(orders) < MaxOrders
  /\ PostOrderAccepted(user_id, restaurant_id, building_id, delivery_slot)
  /\ orders' = OrderCreate([user_id |-> user_id, restaurant_id |-> restaurant_id,
                            building_id |-> building_id,
                            total_price |-> PriceOf(user_id),
                            delivery_slot |-> delivery_slot, status |-> "pending"])
  /\ sweeps' = Disturbed
  /\ ended' = <<>>
  /\ UNCHANGED <<otherVars, clock, group_orders, restaurants, buildings, sendLog, lobbyVars>>

\* A cancellation that is refused once the order's key has a group order.
CanCancelBeforeGroupOrder(orderId, user_id) ==
  /\ user_id \in users
  /\ orderId \in DOMAIN orders
  /\ orders[orderId].user_id = user_id
  /\ orders[orderId].status # "cancelled"
  /\ findByRestaurantAndSlot(group_orders, orders[orderId].restaurant_id,
                             orders[orderId].building_id, orders[orderId].delivery_slot,
                             orders[orderId].order_date) = {}

\* The checks of DELETE /api/orders/:id: the user exists, the order exists,
\* is the user's and is not cancelled yet.
CanCancel(orderId, user_id) ==
  /\ user_id \in users
  /\ orderId \in DOMAIN orders
  /\ orders[orderId].user_id = user_id
  /\ orders[orderId].status # "cancelled"

\* DELETE /api/orders/:id
CancelOrder(orderId, user_id) ==
  /\ CanCancel(orderId, user_id)
  /\ orders' = [orders EXCEPT ![orderId].status = "cancelled"]
  /\ sweeps' = Disturbed
  /\ ended' = <<>>
  /\ UNCHANGED <<otherVars, clock, group_orders, restaurants, buildings, sendLog, lobbyVars>>

\* Registration of a restaurant (RestaurantRepository.create).
RegisterRestaurant(restaurant_id) ==
  /\ restaurant_id \notin restaurants
  /\ restaurants' = restaurants \cup {restaurant_id}
  /\ sweeps' = Disturbed
  /\ ended' = <<>>
  /\ UNCHANGED <<otherVars, clock, orders, group_orders, buildings, sendLog, lobbyVars>>

\* The restaurant bot's accept / reject button of a group order.
DecideGroupOrder(groupId, action) ==
  /\ groupId \in DOMAIN group_orders
  /\ group_orders[groupId].restaurant_id \in restaurants
  /\ group_orders[groupId].status = "pending_restaurant"
  /\ LET groupOrder == group_orders[groupId]
         os == findPendingForGroup(groupOrder.delivery_slot, groupOrder.building_id,
                                   groupOrder.restaurant_id, groupOrder.order_date)
         ids == {os[k].id : k \in DOMAIN os}
     IN  /\ Len(os) # 0
         /\ group_orders' =
              [group_orders EXCEPT ![groupId].status =
                 IF action = "accept" THEN "accepted" ELSE "rejected"]
         /\ orders' =
              [i \in DOMAIN orders |->
                 IF i \in ids
                 THEN [orders[i] EXCEPT !.status =
                         IF action = "accept" THEN "restaurant_confirmed"
                         ELSE "cancelled"]
                 ELSE orders[i]]
  /\ sweeps' = Disturbed
  /\ ended' = <<>>
  /\ UNCHANGED <<otherVars, clock, restaurants, buildings, sendLog, lobbyVars>>

AcceptGroupOrder(groupId) == DecideGroupOrder(groupId, "accept")

RejectGroupOrder(groupId) == DecideGroupOrder(groupId, "reject")

(***************************************************************************)
(* The scheduler: runAll and the continuation of processSlotDeadlines.     *)
(***************************************************************************)
KeyPending(restaurant_id, building_id, slotId, date) ==
  Len(findPendingForGroup(slotId, building_id, restaurant_id, date)) > 0

\* The keys <<pair, slot index>> of today a sweep started now has to aggregate:
\* deadline passed, pending orders, both records present, no group order yet.
Eligible(nowMinutes, today) ==
  {k \in Pairs \X (1..Len(deliverySlots)) :
     /\ isDeadlinePassedForSlot(deliverySlots[k[2]].id, nowMinutes)
     /\ KeyPending(k[1][1], k[1][2], deliverySlots[k[2]].id, today)
     /\ k[1][1] \in restaurants
     /\ k[1][2] \in buildings
     /\ findByRestaurantAndSlot(group_orders, k[1][1], k[1][2],
                                deliverySlots[k[2]].id, today) = {}}

\* The pairs a DISTINCT query of the sweeps can return now, in any order.
PairOrders ==
  Orderings({<<orders[i].restaurant_id, orders[i].building_id>> :
               i \in {j \in DOMAIN orders : orders[j].status = "pending"}}
            \cup restaurant_buildings)

LowestIdle(s) ==
  /\ sweeps[s].pc = "idle"
  /\ \A t \in SweepIds : sweeps[t].pc = "idle" => s <= t

Summary(outcome, nowMinutes, today, elig, quiet, errAt) ==
  [outcome |-> outcome, now |-> nowMinutes, today |-> today, elig |-> elig,
   quiet |-> quiet, errAt |-> errAt]

\* The effect of one run of the aggregation loop on the tables and on sweep s.
Aggregated(s, run, nowMinutes, today, elig, quiet) ==
  /\ group_orders' = run.gos
  /\ sendLog' = sendLog \o run.send
  /\ sweeps' = [sweeps EXCEPT ![s] =
                  IF run.pc = "await"
                  THEN [pc |-> "await", now |-> nowMinutes, today |-> today,
                        slotIdx |-> run.slotIdx, groups |-> run.groups,
                        elig |-> elig, quiet |-> quiet,
                        call |-> run.send[Len(run.send)].groupOrderId]
                  ELSE IdleSweep]
  /\ ended' = IF run.pc = "await" THEN <<>>
              ELSE <<Summary(run.pc, nowMinutes, today, elig, quiet,
                             IF run.pc = "constraint" THEN run.calls[Len(run.calls)]
                             ELSE <<0, <<0, 0>>>>)>>

\* A throw that leaves the row of the key behind it.
ThrownAfterInsert(s, call, nowMinutes, today, elig, quiet) ==
  /\ sweeps' = [sweeps EXCEPT ![s] = IdleSweep]
  /\ ended' = <<Summary("failed", nowMinutes, today, elig, quiet, call)>>
  /\ group_orders' =
       IF call[2] \in Pairs
       THEN GroupOrderCreate(group_orders,
                             [restaurant_id |-> call[2][1], building_id |-> call[2][2],
                              delivery_slot |-> deliverySlots[call[1]].id,
                              order_date |-> today,
                              status |-> "pending_restaurant"]).gos
       ELSE group_orders
  /\ UNCHANGED sendLog

\* A database call of the run throws: nothing is written, the promise of
\* processSlotDeadlines rejects and the catch handler of runAll logs it.
Thrown(s, call, nowMinutes, today, elig, quiet) ==
  /\ sweeps' = [sweeps EXCEPT ![s] = IdleSweep]
  /\ ended' = <<Summary("failed", nowMinutes, today, elig, quiet, call)>>
  /\ UNCHANGED <<group_orders, sendLog>>

\* A runAll that calls processSlotDeadlines before processLobbyDeadlines.
runAllAggregationFirst == <<"processSlotDeadlines", "processLobbyDeadlines">>

\* The body of runAll: the calls it makes, in their order.
runAllSequence == <<"processLobbyDeadlines", "processSlotDeadlines">>

\* The notifyLobbyCancelled calls log[from + 1 ..] of a runAll whose
\* processSlotDeadlines has made the sendGroupOrder calls sent: they come
\* before those calls if the lobby sweep is called first.
InRunAllOrder(log, from, sent) ==
  [k \in DOMAIN log |->
     IF k > from /\ runAllSequence[1] # "processLobbyDeadlines"
     THEN [log[k] EXCEPT !.sends = log[k].sends + Len(sent)]
     ELSE log[k]]

\* runAll: the lobby sweep, then processSlotDeadlines up to its first await.
RunAll(s, ord, throws) ==
  LET nowMinutes == getNowMinutesInAppTz
      today == getTodayInAppTz
      elig == Eligible(nowMinutes, today)
      lobby == processLobbyDeadlines(ord)
      run == RunSweep(0, <<>>, nowMinutes, today, group_orders, ord, <<>>)
  IN  /\ LowestIdle(s)
      /\ scheduler.process = "running"
      /\ reservations' = lobby.reservations
      /\ lobbyLog' = InRunAllOrder(lobby.log, Len(lobbyLog),
                                   IF throws THEN <<>> ELSE run.send)
      /\ IF throws
         THEN \E c \in DOMAIN run.calls :
                Thrown(s, run.calls[c], nowMinutes, today, elig, TRUE)
         ELSE Aggregated(s, run, nowMinutes, today, elig, TRUE)
      /\ UNCHANGED <<clock, orders, restaurants, buildings, users, restaurant_buildings>>

\* The interval timer fires runAll.
Tick(s) ==
  /\ scheduler.timer
  /\ \E ord \in PairOrders : RunAll(s, ord, FALSE)
  /\ UNCHANGED otherVars

TickStoreError(s) ==
  /\ scheduler.timer
  /\ \E ord \in PairOrders : RunAll(s, ord, TRUE)
  /\ UNCHANGED otherVars

\* A notification promise rejected and the handler ran the compensation undone.
UndoneWhenRejected(table, undone, outcome) ==
  IF outcome = "rejected" THEN undone ELSE table

\* The catch block of sendGroupOrder and the .catch handler of
\* notifyLobbyCancelled: logger.error, nothing else. The table stays as it is
\* whatever the outcome.
CaughtAndLogged(table, undone, outcome) == table

Outcomes == {"resolved", "rejected"}

\* The awaited sendGroupOrder call settles and the loop goes on to the next
\* pair.
Resume(s, ord, throws, outcome) ==
  LET sw == sweeps[s]
      gos == CaughtAndLogged(group_orders,
                             [group_orders EXCEPT ![sw.call].status = "cancelled"],
                             outcome)
  IN  /\ sw.pc = "await"
      /\ scheduler.process = "running"
      /\ \E run \in {RunSweep(sw.slotIdx, sw.groups, sw.now, sw.today, gos, ord, <<>>)} :
            IF throws
            THEN \E c \in DOMAIN run.calls :
                   Thrown(s, run.calls[c], sw.now, sw.today, sw.elig, sw.quiet)
            ELSE Aggregated(s, run, sw.now, sw.today, sw.elig, sw.quiet)
      /\ UNCHANGED <<clock, orders, restaurants, buildings, lobbyVars>>

\* sendGroupOrder resolves or rejects: the catch block only logs.
SendSettles(s) ==
  /\ \E ord \in PairOrders, outcome \in Outcomes : Resume(s, ord, FALSE, outcome)
  /\ UNCHANGED otherVars

SendSettlesStoreError(s) ==
  /\ \E ord \in PairOrders, outcome \in Outcomes : Resume(s, ord, TRUE, outcome)
  /\ UNCHANGED otherVars

Next ==
  \/ AdvanceClock
  \/ \E r \in Restaurants, b \in Buildings, sl \in OrderSlots :
       CreateOrder(Len(orders) + 1, r, b, sl)
  \/ \E i \in 1..MaxOrders, u \in Users : CancelOrder(i, u)
  \/ \E r \in Restaurants : RegisterRestaurant(r)
  \/ \E g \in 1..MaxOrders : AcceptGroupOrder(g)
  \/ \E g \in 1..MaxOrders : RejectGroupOrder(g)
  \/ \E s \in SweepIds : Tick(s)
  \/ \E s \in SweepIds : TickStoreError(s)
  \/ \E s \in SweepIds : SendSettles(s)
  \/ \E s \in SweepIds : SendSettlesStoreError(s)

Spec == Init /\ [][Next]_vars

\* Every user has submitted one order before the first deadline of the day;
\* both restaurants are registered.
InitPayload ==
  /\ clock = [day |-> 1, min |-> 630]
  /\ \E choice \in [Users -> Restaurants \X Buildings \X OrderSlots] :
        orders = [i \in 1..MaxUsers |->
                    [id |-> i, user_id |-> i, restaurant_id |-> choice[i][1],
                     building_id |-> choice[i][2], total_price |-> PriceOf(i),
                     delivery_slot |-> choice[i][3], status |-> "pending",
                     order_date |-> 1, created_date |-> 1]]
  /\ group_orders = <<>>
  /\ restaurants = Restaurants
  /\ buildings = Buildings
  /\ sweeps = [s \in SweepIds |-> IdleSweep]
  /\ sendLog = <<>>
  /\ ended = <<>>
  /\ users = Users
  /\ restaurant_buildings = {}
  /\ reservations = EmptyBag
  /\ lobbyLog = <<>>
  /\ probe = NoProbe
  /\ scheduler = SchedulerStarted
  /\ settledNotices = {}
  /\ twin = NoTwin
  /\ activated = {}

NextPayload ==
  \/ AdvanceClock
  \/ \E i \in 1..MaxUsers, u \in Users : CancelOrder(i, u)
  \/ \E s \in SweepIds : Tick(s)
  \/ \E s \in SweepIds : SendSettles(s)

SpecPayload == InitPayload /\ [][NextPayload]_vars

(***************************************************************************)
(* Handlers that change the tables the lobby sweep reads.                  *)
(***************************************************************************)
\* A join that is refused only once the delivery time itself has passed.
LobbyDeadlineHasPassedAtSlotTime(delivery_slot, nowMinutes) ==
  nowMinutes > toMinutes(delivery_slot)

\* The check of POST /api/lobby/join that answers 'Lobby deadline has passed'.
LobbyDeadlineHasPassed(delivery_slot, nowMinutes) ==
  LET slotMinutes == toMinutes(delivery_slot)
      lobbyDeadlineMinutes == Max(slotMinutes - lobbyLeadMinutes, 0)
  IN  nowMinutes > lobbyDeadlineMinutes

\* POST /api/lobby/join
JoinLobby(user_id, building_id, restaurant_id, delivery_slot) ==
  LET orderDate == getTodayInAppTz
      nowMinutes == getNowMinutesInAppTz
  IN  /\ BagCardinality(reservations) < MaxReservations
      /\ ~LobbyDeadlineHasPassed(delivery_slot, nowMinutes)
      /\ user_id \in users
      /\ reservations' = addReservation(reservations, building_id, restaurant_id,
                                        delivery_slot, orderDate, user_id)
      /\ ended' = <<>>
      /\ UNCHANGED <<otherVars, clock, orders, group_orders, restaurants, buildings, sweeps,
                     sendLog, users, restaurant_buildings, lobbyLog>>

\* POST /api/lobby/leave
LeaveLobby(user_id, building_id, restaurant_id, delivery_slot) ==
  LET orderDate == getTodayInAppTz
  IN  /\ user_id \in users
      /\ reservations' = removeReservation(reservations, building_id, restaurant_id,
                                           delivery_slot, orderDate, user_id)
      /\ ended' = <<>>
      /\ UNCHANGED <<otherVars, clock, orders, group_orders, restaurants, buildings, sweeps,
                     sendLog, users, restaurant_buildings, lobbyLog>>

\* RestaurantBuildingRepository.link
LinkRestaurant(restaurantId, buildingId) ==
  /\ <<restaurantId, buildingId>> \notin restaurant_buildings
  /\ restaurant_buildings' = restaurant_buildings \cup {<<restaurantId, buildingId>>}
  /\ ended' = <<>>
  /\ UNCHANGED <<otherVars, clock, orders, group_orders, restaurants, buildings, sweeps,
                 sendLog, users, reservations, lobbyLog>>

\* RestaurantBuildingRepository.unlink
UnlinkRestaurant(restaurantId, buildingId) ==
  /\ <<restaurantId, buildingId>> \in restaurant_buildings
  /\ restaurant_buildings' = restaurant_buildings \ {<<restaurantId, buildingId>>}
  /\ ended' = <<>>
  /\ UNCHANGED <<otherVars, clock, orders, group_orders, restaurants, buildings, sweeps,
                 sendLog, users, reservations, lobbyLog>>

NextLobby ==
  \/ AdvanceClock
  \/ \E u \in Users, p \in Pairs, sl \in OrderSlots : JoinLobby(u, p[2], p[1], sl)
  \/ \E u \in Users, p \in Pairs, sl \in OrderSlots : LeaveLobby(u, p[2], p[1], sl)
  \/ \E p \in Pairs : LinkRestaurant(p[1], p[2])
  \/ \E p \in Pairs : UnlinkRestaurant(p[1], p[2])
  \/ \E s \in SweepIds : Tick(s)

SpecLobby == Init /\ [][NextLobby]_vars

(***************************************************************************)
(* startDeadlineScheduler and a store that throws inside the lobby sweep.  *)
(***************************************************************************)
\* The process before startDeadlineScheduler is called.
SchedulerNotStarted ==
  [process |-> "running", timer |-> FALSE, handle |-> FALSE, sendsAtStop |-> -1]

\* The SELECT DISTINCT of processLobbyDeadlines, before the loop.
PairsQuery == <<1, <<0, 0>>>>

\* The store calls of a lobby sweep that can throw.
LobbyCalls == {PairsQuery} \cup ((1..Len(deliverySlots)) \X Pairs)

\* processLobbyDeadlines in which the store call failAt throws.
processLobbyDeadlinesThrows(ord, failAt) ==
  IF failAt = PairsQuery
  THEN [threw |-> TRUE, reservations |-> reservations, log |-> lobbyLog]
  ELSE processLobbyDeadlinesOf(ord, reservations, failAt)

\* runAll whose lobby sweep throws: processSlotDeadlines is not called.
RunAllLobbyThrows(ord, failAt) ==
  LET nowMinutes == getNowMinutesInAppTz
      today == getTodayInAppTz
      lobby == processLobbyDeadlinesThrows(ord, failAt)
  IN  /\ scheduler.process = "running"
      /\ lobby.threw
      /\ reservations' = lobby.reservations
      /\ lobbyLog' = lobby.log
      /\ ended' = <<Summary("uncaught", nowMinutes, today,
                             Eligible(nowMinutes, today), TRUE, failAt)>>
      /\ UNCHANGED <<clock, orders, group_orders, restaurants, buildings, sweeps,
                     sendLog, users, restaurant_buildings>>

\* startDeadlineScheduler: setInterval, the first runAll, the stop handle
\* returned to the caller.
StartScheduler ==
  /\ scheduler = SchedulerNotStarted
  /\ \E ord \in PairOrders : RunAll(1, ord, FALSE)
  /\ scheduler' = SchedulerStarted
  /\ UNCHANGED <<probe, settledNotices, twin, activated>>

\* The first runAll throws out of startDeadlineScheduler after setInterval:
\* the try/catch around the bot start-up logs it, the handle is never assigned.
StartSchedulerLobbyStoreError ==
  /\ scheduler = SchedulerNotStarted
  /\ \E ord \in PairOrders, failAt \in LobbyCalls : RunAllLobbyThrows(ord, failAt)
  /\ scheduler' = [scheduler EXCEPT !.timer = TRUE]
  /\ UNCHANGED <<probe, settledNotices, twin, activated>>

\* A runAll fired by the timer throws: the uncaughtException handler logs it
\* and calls process.exit(1).
TickLobbyStoreError ==
  /\ scheduler.timer
  /\ \E ord \in PairOrders, failAt \in LobbyCalls : RunAllLobbyThrows(ord, failAt)
  /\ scheduler' = [scheduler EXCEPT !.process = "exited"]
  /\ UNCHANGED <<probe, settledNotices, twin, activated>>

\* The handlers of the running process.
Serving(handler) == scheduler.process = "running" /\ handler

InitScheduler ==
  /\ clock = [day |-> 1, min |-> 630]
  /\ orders = <<>>
  /\ group_orders = <<>>
  /\ restaurants = Restaurants
  /\ buildings = Buildings
  /\ sweeps = [s \in SweepIds |-> IdleSweep]
  /\ sendLog = <<>>
  /\ ended = <<>>
  /\ users = Users
  /\ restaurant_buildings = Pairs
  /\ reservations = EmptyBag
  /\ lobbyLog = <<>>
  /\ probe = NoProbe
  /\ scheduler = SchedulerNotStarted
  /\ settledNotices = {}
  /\ twin = NoTwin
  /\ activated = {}

NextScheduler ==
  \/ AdvanceClock
  \/ \E r \in Restaurants, b \in Buildings :
       Serving(CreateOrder(Len(orders) + 1, r, b, Slot1300))
  \/ \E u \in Users, b \in Buildings : Serving(JoinLobby(u, b, 1, Slot1300))
  \/ StartScheduler
  \/ StartSchedulerLobbyStoreError
  \/ \E s \in SweepIds : Tick(s)
  \/ TickLobbyStoreError
  \/ \E s \in SweepIds : SendSettles(s)

SpecScheduler == InitScheduler /\ [][NextScheduler]_vars

(***************************************************************************)
(* The notification promises, each followed to its outcome.                *)
(***************************************************************************)
\* The notifyLobbyCancelled calls (indices of lobbyLog) that have settled.
SettledLobbyNotices == {x.id : x \in {y \in settledNotices : y.kind = "lobby"}}

\* The awaited sendGroupOrder call of sweep s settles with the outcome.
SendSettlesAs(s, outcome) ==
  /\ \E ord \in PairOrders : Resume(s, ord, FALSE, outcome)
  /\ settledNotices' = settledNotices \cup
        {[kind |-> "group", id |-> sweeps[s].call, outcome |-> outcome]}
  /\ UNCHANGED <<probe, scheduler, twin, activated>>

SendResolves(s) == SendSettlesAs(s, "resolved")

SendRejects(s) == SendSettlesAs(s, "rejected")

\* The reservation a cancelled-lobby notice was sent for, put back.
Reinstated(rs, notice) ==
  LET slot == CHOOSE sl \in {deliverySlots[k] : k \in DOMAIN deliverySlots} :
                 sl.time = notice.slotTime
      userId == CHOOSE u \in Users : TelegramIdOf(u) = notice.telegramUserId
  IN  addReservation(rs, notice.building_id, notice.restaurant_id, slot.id,
                     notice.order_date, userId)

\* The promise of the n-th notifyLobbyCancelled call settles; nothing awaits
\* it, a rejection runs the .catch handler.
NoticeSettlesAs(n, outcome) ==
  /\ scheduler.process = "running"
  /\ n \in DOMAIN lobbyLog \ SettledLobbyNotices
  /\ reservations' = CaughtAndLogged(reservations, Reinstated(reservations, lobbyLog[n]),
                                     outcome)
  /\ settledNotices' = settledNotices \cup
        {[kind |-> "lobby", id |-> n, outcome |-> outcome]}
  /\ ended' = <<>>
  /\ UNCHANGED <<clock, orders, group_orders, restaurants, buildings, sweeps, sendLog,
                 users, restaurant_buildings, lobbyLog, probe, scheduler, twin, activated>>

NoticeResolves(n) == NoticeSettlesAs(n, "resolved")

NoticeRejects(n) == NoticeSettlesAs(n, "rejected")

NextNotify ==
  \/ AdvanceClock
  \/ \E r \in Restaurants, b \in Buildings :
       CreateOrder(Len(orders) + 1, r, b, Slot1300)
  \/ \E u \in Users, b \in Buildings : JoinLobby(u, b, 1, Slot1300)
  \/ StartScheduler
  \/ \E s \in SweepIds : Tick(s)
  \/ \E s \in SweepIds : SendResolves(s)
  \/ \E s \in SweepIds : SendRejects(s)
  \/ \E n \in 1..MaxReservations : NoticeResolves(n)
  \/ \E n \in 1..MaxReservations : NoticeRejects(n)

SpecNotify == InitScheduler /\ [][NextNotify]_vars

(***************************************************************************)
(* Two runs of the same ticks from the same store at the same clock        *)
(* readings: this run, whose sink resolves or rejects, and a second run    *)
(* under a sink whose calls all resolve at once (the no-op sink).          *)
(***************************************************************************)
\* runAll in the second run.
TwinRunAll(s, ord) ==
  LET nowMinutes == getNowMinutesInAppTz
      today == getTodayInAppTz
      lobby == processLobbyDeadlinesOf(ord, twin.reservations, NoFailure)
      run == RunSweep(0, <<>>, nowMinutes, today, twin.group_orders, ord, <<>>)
  IN  [group_orders |-> run.gos,
       reservations |-> lobby.reservations,
       sweeps |-> [twin.sweeps EXCEPT ![s] =
                     IF run.pc = "await"
                     THEN [IdleSweep EXCEPT !.pc = "await", !.now = nowMinutes,
                                            !.today = today, !.slotIdx = run.slotIdx,
                                            !.groups = run.groups,
                                            !.call = run.send[Len(run.send)].groupOrderId]
                     ELSE IdleSweep]]

\* The continuation of processSlotDeadlines in the second run: its call has
\* resolved.
TwinResume(s, ord) ==
  LET sw == twin.sweeps[s]
      gos == CaughtAndLogged(twin.group_orders,
                             [twin.group_orders EXCEPT ![sw.call].status = "cancelled"],
                             "resolved")
      run == RunSweep(sw.slotIdx, sw.groups, sw.now, sw.today, gos, ord, <<>>)
  IN  [twin EXCEPT !.group_orders = run.gos,
                   !.sweeps[s] =
                     IF run.pc = "await"
                     THEN [sw EXCEPT !.slotIdx = run.slotIdx, !.groups = run.groups,
                                     !.call = run.send[Len(run.send)].groupOrderId]
                     ELSE IdleSweep]

\* The timer fires in both runs.
TickBoth(s) ==
  /\ scheduler.timer
  /\ twin.sweeps[s].pc = "idle"
  /\ \E ord \in PairOrders :
        /\ RunAll(s, ord, FALSE)
        /\ twin' = TwinRunAll(s, ord)
  /\ UNCHANGED <<probe, scheduler, settledNotices, activated>>

\* The awaited call settles in both runs: with the outcome here, resolved in
\* the second run.
SettleBoth(s, outcome) ==
  /\ twin.sweeps[s].pc = "await"
  /\ \E ord \in PairOrders :
        /\ Resume(s, ord, FALSE, outcome)
        /\ twin' = TwinResume(s, ord)
  /\ settledNotices' = settledNotices \cup
        {[kind |-> "group", id |-> sweeps[s].call, outcome |-> outcome]}
  /\ UNCHANGED <<probe, scheduler, activated>>

SettleBothResolved(s) == SettleBoth(s, "resolved")

SettleBothRejected(s) == SettleBoth(s, "rejected")

\* Orders are pending, some users have a reservation, and the second run
\* starts from the same tables.
InitSink ==
  /\ clock = [day |-> 1, min |-> 630]
  /\ \E choice \in [1..MaxOrders -> Restaurants \X Buildings \X OrderSlots] :
        orders = [i \in 1..MaxOrders |->
                    [id |-> i, user_id |-> i, restaurant_id |-> choice[i][1],
                     building_id |-> choice[i][2], total_price |-> PriceOf(i),
                     delivery_slot |-> choice[i][3], status |-> "pending",
                     order_date |-> 1, created_date |-> 1]]
  /\ group_orders = <<>>
  /\ restaurants = Restaurants
  /\ buildings = Buildings
  /\ sweeps = [s \in SweepIds |-> IdleSweep]
  /\ sendLog = <<>>
  /\ ended = <<>>
  /\ users = Users
  /\ restaurant_buildings = Pairs
  /\ \E joined \in SUBSET Users :
        reservations = SetToBag({ReservationRow(1, 1, Slot1300, 1, u) : u \in joined})
  /\ lobbyLog = <<>>
  /\ probe = NoProbe
  /\ scheduler = SchedulerStarted
  /\ settledNotices = {}
  /\ twin = [group_orders |-> group_orders, reservations |-> reservations,
             sweeps |-> sweeps]
  /\ activated = {}

NextSink ==
  \/ AdvanceClock
  \/ \E s \in SweepIds : TickBoth(s)
  \/ \E s \in SweepIds : SettleBothResolved(s)
  \/ \E s \in SweepIds : SettleBothRejected(s)
  \/ \E n \in 1..MaxReservations : NoticeResolves(n)
  \/ \E n \in 1..MaxReservations : NoticeRejects(n)

SpecSink == InitSink /\ [][NextSink]_vars

(***************************************************************************)
(* The order handlers of the API, any user ordering.                       *)
(***************************************************************************)
validStatuses ==
  {"pending", "confirmed", "restaurant_confirmed", "preparing", "ready", "delivered",
   "cancelled"}

\* OrderRepository.updateStatus: UPDATE orders SET status = ? WHERE id = ?
updateStatus(id, status) ==
  [i \in DOMAIN orders |-> IF i = id THEN [orders[i] EXCEPT !.status = status]
                           ELSE orders[i]]

\* PATCH /api/orders/:id/status: the status is validated against the list,
\* nothing else is looked at.
PatchOrderStatus(orderId, status) ==
  /\ status \in validStatuses
  /\ orderId \in DOMAIN orders
  /\ orders' = updateStatus(orderId, status)
  /\ sweeps' = Disturbed
  /\ ended' = <<>>
  /\ UNCHANGED <<otherVars, clock, group_orders, restaurants, buildings, sendLog, lobbyVars>>

NextOrders ==
  \/ AdvanceClock
  \/ \E u \in Users, b \in Buildings : CreateOrder(u, 1, b, Slot1300)
  \/ \E i \in 1..MaxOrders, u \in Users : CancelOrder(i, u)
  \/ \E i \in 1..MaxOrders, st \in validStatuses : PatchOrderStatus(i, st)
  \/ \E g \in 1..MaxOrders : AcceptGroupOrder(g)
  \/ \E g \in 1..MaxOrders : RejectGroupOrder(g)
  \/ \E s \in SweepIds : Tick(s)
  \/ \E s \in SweepIds : SendSettles(s)

SpecOrders == Init /\ [][NextOrders]_vars

(***************************************************************************)
(* LobbyRepository called method by method; probe keeps the last call, the *)
(* table before it and the call before that.                               *)
(***************************************************************************)
NoCall ==
  [op |-> "none", row |-> ReservationRow(0, 0, <<>>, 0, 0), before |-> EmptyBag,
   returned |-> <<>>, lastOp |-> "none", lastRow |-> ReservationRow(0, 0, <<>>, 0, 0),
   prior |-> EmptyBag]

\* The record of a call op with arguments row that returned the value.
Called(op, row, returned) ==
  [op |-> op, row |-> row, before |-> reservations, returned |-> returned,
   lastOp |-> probe.op, lastRow |-> probe.row, prior |-> probe.before]

\* lobbyRepo.addReservation(buildingId, restaurantId, deliverySlot, orderDate, userId)
CallAddReservation(buildingId, restaurantId, deliverySlot, orderDate, userId) ==
  /\ BagCardinality(reservations) < MaxReservations
  /\ userId \in users
  /\ reservations' = addReservation(reservations, buildingId, restaurantId,
                                    deliverySlot, orderDate, userId)
  /\ probe' = Called("add", ReservationRow(buildingId, restaurantId, deliverySlot,
                                           orderDate, userId), <<>>)
  /\ UNCHANGED <<clock, orders, group_orders, restaurants, buildings, sweeps, sendLog,
                 ended, users, restaurant_buildings, lobbyLog, scheduler,
                 settledNotices, twin, activated>>

\* lobbyRepo.removeReservation(buildingId, restaurantId, deliverySlot, orderDate, userId)
CallRemoveReservation(buildingId, restaurantId, deliverySlot, orderDate, userId) ==
  /\ userId \in users
  /\ reservations' = removeReservation(reservations, buildingId, restaurantId,
                                       deliverySlot, orderDate, userId)
  /\ probe' = Called("remove", ReservationRow(buildingId, restaurantId, deliverySlot,
                                              orderDate, userId), <<>>)
  /\ UNCHANGED <<clock, orders, group_orders, restaurants, buildings, sweeps, sendLog,
                 ended, users, restaurant_buildings, lobbyLog, scheduler,
                 settledNotices, twin, activated>>

\* lobbyRepo.deleteReservationsForSlot(buildingId, restaurantId, deliverySlot, orderDate)
CallDeleteReservationsForSlot(buildingId, restaurantId, deliverySlot, orderDate) ==
  LET deleted == deleteReservationsForSlot(reservations, buildingId, restaurantId,
                                           deliverySlot, orderDate)
  IN  /\ reservations' = deleted.reservations
      /\ probe' = Called("delete", ReservationRow(buildingId, restaurantId, deliverySlot,
                                                  orderDate, 0), deleted.telegramIds)
      /\ UNCHANGED <<clock, orders, group_orders, restaurants, buildings, sweeps,
                     sendLog, ended, users, restaurant_buildings, lobbyLog, scheduler,
                     settledNotices, twin, activated>>

InitLobbyRepo ==
  /\ clock = [day |-> 1, min |-> 630]
  /\ orders = <<>>
  /\ group_orders = <<>>
  /\ restaurants = Restaurants
  /\ buildings = Buildings
  /\ sweeps = [s \in SweepIds |-> IdleSweep]
  /\ sendLog = <<>>
  /\ ended = <<>>
  /\ users = Users
  /\ restaurant_buildings = Pairs
  /\ reservations = EmptyBag
  /\ lobbyLog = <<>>
  /\ probe = NoCall
  /\ scheduler = SchedulerStarted
  /\ settledNotices = {}
  /\ twin = NoTwin
  /\ activated = {}

NextLobbyRepo ==
  \/ \E u \in Users, p \in Pairs, sl \in OrderSlots, d \in Days :
       CallAddReservation(p[2], p[1], sl, d, u)
  \/ \E u \in Users, p \in Pairs, sl \in OrderSlots, d \in Days :
       CallRemoveReservation(p[2], p[1], sl, d, u)
  \/ \E p \in Pairs, sl \in OrderSlots, d \in Days :
       CallDeleteReservationsForSlot(p[2], p[1], sl, d)

SpecLobbyRepo == InitLobbyRepo /\ [][NextLobbyRepo]_vars

(***************************************************************************)
(* The stop handle and the shutdown of the process.                        *)
(***************************************************************************)
\* A stop function that leaves the timer armed.
stopKeepsTimer(sch) == [sch EXCEPT !.sendsAtStop = Len(sendLog)]

\* The function startDeadlineScheduler returns: () => clearInterval(timer).
stop(sch) == [sch EXCEPT !.timer = FALSE, !.sendsAtStop = Len(sendLog)]

\* shutdown on SIGINT / SIGTERM: stopDeadlineScheduler?.() is called once
\* (shuttingDown), then server.close is asked for.
Shutdown ==
  /\ scheduler.process = "running"
  /\ scheduler.handle
  /\ scheduler.sendsAtStop = -1
  /\ scheduler' = stop(scheduler)
  /\ UNCHANGED <<clock, orders, group_orders, restaurants, buildings, sweeps, sendLog,
                 ended, lobbyVars, probe, settledNotices, twin, activated>>

\* The callback of server.close: db.close() and process.exit(0).
ServerClosed ==
  /\ scheduler.process = "running"
  /\ scheduler.sendsAtStop # -1
  /\ scheduler' = [scheduler EXCEPT !.process = "exited"]
  /\ UNCHANGED <<clock, orders, group_orders, restaurants, buildings, sweeps, sendLog,
                 ended, lobbyVars, probe, settledNotices, twin, activated>>

NextStop ==
  \/ AdvanceClock
  \/ \E r \in Restaurants, b \in Buildings :
       Serving(CreateOrder(Len(orders) + 1, r, b, Slot1300))
  \/ \E i \in 1..MaxOrders, u \in Users : Serving(CancelOrder(i, u))
  \/ StartScheduler
  \/ \E s \in SweepIds : Tick(s)
  \/ \E s \in SweepIds : SendSettles(s)
  \/ Shutdown
  \/ ServerClosed

SpecStop == InitScheduler /\ [][NextStop]_vars

(***************************************************************************)
(* The deadline predicates on their own: one call with drawn arguments.    *)
(***************************************************************************)
ProbeHours == {0, 9, 13, 18, 23}
ProbeMinutes == {0, 45}
ProbeLeads == {0, 150, 800}
MinutesOfDay == 0..1439

DigitChar == <<"0", "1", "2", "3", "4", "5", "6", "7", "8", "9">>

\* The decimal digits of n, at least width of them (zero padded).
RECURSIVE Digits(_, _)
Digits(n, width) ==
  IF n < 10 /\ width <= 1 THEN <<DigitChar[n + 1]>>
  ELSE Append(Digits(n \div 10, width - 1), DigitChar[(n % 10) + 1])

\* The slot time strings "HH:MM" and "H:MM" of an hour and a minute.
TimeStrings(h, m) ==
  {Digits(h, 2) \o <<":">> \o Digits(m, 2), Digits(h, 1) \o <<":">> \o Digits(m, 2)}

InitDeadline ==
  /\ clock = [day |-> 1, min |-> 630]
  /\ orders = <<>>
  /\ group_orders = <<>>
  /\ restaurants = {1}
  /\ buildings = Buildings
  /\ sweeps = [s \in SweepIds |-> IdleSweep]
  /\ sendLog = <<>>
  /\ ended = <<>>
  /\ users = Users
  /\ restaurant_buildings = {}
  /\ reservations = EmptyBag
  /\ lobbyLog = <<>>
  /\ \E h \in ProbeHours, m \in ProbeMinutes, l \in ProbeLeads, n \in MinutesOfDay :
        \E t \in TimeStrings(h, m) :
           probe = [time |-> t, hours |-> h, minutes |-> m, lead |-> l, now |-> n,
                    asked |-> "none", passed |-> FALSE]
  /\ scheduler = SchedulerStarted
  /\ settledNotices = {}
  /\ twin = NoTwin
  /\ activated = {}

\* isDeadlinePassedForSlot(slotId, nowMinutes) under the configured order lead.
AskOrderDeadline ==
  /\ probe.asked = "none"
  /\ probe.lead = orderLeadMinutes
  /\ probe' = [probe EXCEPT !.asked = "order",
                            !.passed = isDeadlinePassedForSlot(probe.time, probe.now)]
  /\ UNCHANGED <<clock, orders, group_orders, restaurants, buildings, sweeps, sendLog,
                 ended, lobbyVars, scheduler, settledNotices, twin, activated>>

\* isLobbyDeadlinePassed(slotId, nowMinutes) under the configured lobby lead.
AskLobbyDeadline ==
  /\ probe.asked = "none"
  /\ probe.lead = lobbyLeadMinutes
  /\ probe' = [probe EXCEPT !.asked = "lobby",
                            !.passed = isLobbyDeadlinePassed(probe.time, probe.now)]
  /\ UNCHANGED <<clock, orders, group_orders, restaurants, buildings, sweeps, sendLog,
                 ended, lobbyVars, scheduler, settledNotices, twin, activated>>

\* The same body under another configured lead.
AskWithLead ==
  /\ probe.asked = "none"
  /\ probe' = [probe EXCEPT !.asked = "lead",
                            !.passed = DeadlinePassed(probe.time, probe.lead, probe.now)]
  /\ UNCHANGED <<clock, orders, group_orders, restaurants, buildings, sweeps, sendLog,
                 ended, lobbyVars, scheduler, settledNotices, twin, activated>>

NextDeadline == AskOrderDeadline \/ AskLobbyDeadline \/ AskWithLead

SpecDeadline == InitDeadline /\ [][NextDeadline]_vars

(***************************************************************************)
(* Orders, their cancellation and the lobby under the running scheduler.   *)
(***************************************************************************)
NextFrame ==
  \/ AdvanceClock
  \/ \E r \in Restaurants, b \in Buildings :
       CreateOrder(Len(orders) + 1, r, b, Slot1300)
  \/ \E i \in 1..MaxOrders, u \in Users : CancelOrder(i, u)
  \/ \E u \in Users, b \in Buildings : JoinLobby(u, b, 1, Slot1300)
  \/ StartScheduler
  \/ \E s \in SweepIds : Tick(s)
  \/ \E s \in SweepIds : SendSettles(s)

SpecFrame == InitScheduler /\ [][NextFrame]_vars

(***************************************************************************)
(* The lobby sweeps of one day followed key by key: which keys a sweep     *)
(* has left intact because they had reached the quorum.                    *)
(***************************************************************************)
\* The keys for which the lobby sweep started now takes the branch
\* count >= minLobbyParticipants.
FoundAtQuorum(nowMinutes, today) ==
  {<<p[1], p[2], deliverySlots[i].id, today>> :
     p \in restaurant_buildings,
     i \in {j \in DOMAIN deliverySlots :
              isLobbyDeadlinePassed(deliverySlots[j].id, nowMinutes)}}
  \cap {k \in Restaurants \X Buildings \X SlotIds \X Days :
          countReservations(reservations, k[2], k[1], k[3], k[4])
            >= minLobbyParticipants}

\* The interval timer fires runAll; the keys its lobby sweep leaves intact at
\* quorum are remembered.
TickFollowed(s) ==
  /\ scheduler.timer
  /\ \E ord \in PairOrders : RunAll(s, ord, FALSE)
  /\ activated' = activated \cup FoundAtQuorum(getNowMinutesInAppTz, getTodayInAppTz)
  /\ UNCHANGED <<probe, scheduler, settledNotices, twin>>

\* The scheduler runs, every restaurant serves every building.
InitActivated ==
  /\ clock = [day |-> 1, min |-> 630]
  /\ orders = <<>>
  /\ group_orders = <<>>
  /\ restaurants = Restaurants
  /\ buildings = Buildings
  /\ sweeps = [s \in SweepIds |-> IdleSweep]
  /\ sendLog = <<>>
  /\ ended = <<>>
  /\ users = Users
  /\ restaurant_buildings = Pairs
  /\ reservations = EmptyBag
  /\ lobbyLog = <<>>
  /\ probe = NoProbe
  /\ scheduler = SchedulerStarted
  /\ settledNotices = {}
  /\ twin = NoTwin
  /\ activated = {}

NextActivated ==
  \/ AdvanceClock
  \/ \E u \in Users, p \in Pairs, sl \in OrderSlots : JoinLobby(u, p[2], p[1], sl)
  \/ \E u \in Users, p \in Pairs, sl \in OrderSlots : LeaveLobby(u, p[2], p[1], sl)
  \/ \E s \in SweepIds : TickFollowed(s)

SpecActivated == InitActivated /\ [][NextActivated]_vars

\* The timer fires every minute and every awaited call settles: a tick that
\* can start does start, a sweep that waits is resumed.
SpecFair ==
  /\ Init
  /\ [][Next]_vars
  /\ \A s \in SweepIds : WF_vars(Tick(s)) /\ WF_vars(SendSettles(s))

(***************************************************************************)
(* Properties.                                                             *)
(***************************************************************************)
\* The group_orders rows of one key.
GroupOrdersOf(gos, restaurant_id, building_id, slotId, date) ==
  {g \in DOMAIN gos : /\ gos[g].restaurant_id = restaurant_id
                      /\ gos[g].building_id = building_id
                      /\ gos[g].delivery_slot = slotId
                      /\ gos[g].order_date = date}

\* C1: in every reachable state, whatever the interleaving of ticks (also
\* overlapping ones), submissions, cancellations and restaurant decisions,
\* group_orders holds at most one row per
\* (restaurant_id, building_id, delivery_slot, order_date).
AtMostOneGroupOrderPerKey ==
  \A g, h \in DOMAIN group_orders :
     (/\ group_orders[g].restaurant_id = group_orders[h].restaurant_id
      /\ group_orders[g].building_id = group_orders[h].building_id
      /\ group_orders[g].delivery_slot = group_orders[h].delivery_slot
      /\ group_orders[g].order_date = group_orders[h].order_date) => g = h

\* C1 witness: two ticks overlap, each awaiting its notification, both have
\* created a group order and an order has been cancelled meanwhile.
OverlappingTicksWitness ==
  /\ \A s \in SweepIds : sweeps[s].pc = "await"
  /\ Len(group_orders) = 2
  /\ \E i \in DOMAIN orders : orders[i].status = "cancelled"

\* The sendGroupOrder calls of one key.
SendsOf(log, restaurant_id, building_id, slotId, date) ==
  {n \in DOMAIN log : /\ log[n].restaurantId = restaurant_id
                      /\ log[n].buildingId = building_id
                      /\ log[n].deliverySlot = slotId
                      /\ log[n].orderDate = date}

\* C2: once a key has its group order, a later run of the sweep finds that
\* row and creates nothing for the key: no step adds a second row or a second
\* sendGroupOrder call for it, and no INSERT runs into the UNIQUE constraint.
SecondRunCreatesNothing ==
  [][/\ \A p \in Pairs, sl \in SlotIds, d \in Days :
          GroupOrdersOf(group_orders, p[1], p[2], sl, d) # {} =>
            /\ Cardinality(GroupOrdersOf(group_orders', p[1], p[2], sl, d)) = 1
            /\ SendsOf(sendLog', p[1], p[2], sl, d) = SendsOf(sendLog, p[1], p[2], sl, d)
     /\ (ended' # <<>> => ended'[1].outcome # "constraint")]_vars

\* C2 witness: a sweep that started with nothing left to aggregate has run to
\* its end past a key whose deadline has passed, whose orders are still
\* pending and whose group order and call an earlier sweep made.
SecondRunWitness ==
  /\ ended # <<>>
  /\ ended[1].outcome = "done"
  /\ ended[1].quiet
  /\ ended[1].elig = {}
  /\ \E p \in Pairs, sl \in SlotIds :
        /\ isDeadlinePassedForSlot(sl, ended[1].now)
        /\ Len(findPendingForGroup(sl, p[2], p[1], ended[1].today)) > 0
        /\ Cardinality(GroupOrdersOf(group_orders, p[1], p[2], sl, ended[1].today)) = 1
        /\ Cardinality(SendsOf(sendLog, p[1], p[2], sl, ended[1].today)) = 1

\* Order i is in the orders list of a sendGroupOrder call.
Handed(i) ==
  \E n \in DOMAIN sendLog :
     \E k \in DOMAIN sendLog[n].orders : sendLog[n].orders[k].id = i

\* Order i is pending for a key of today whose records exist and whose order
\* deadline has passed.
AwaitsAggregation(i) ==
  /\ i \in DOMAIN orders
  /\ orders[i].status = "pending"
  /\ OrderDateMatches(orders[i], getTodayInAppTz)
  /\ orders[i].restaurant_id \in restaurants
  /\ orders[i].building_id \in buildings
  /\ isDeadlinePassedForSlot(orders[i].delivery_slot, getNowMinutesInAppTz)

\* C3: while the scheduler keeps ticking, an order that is pending for a key
\* with both records present after the key's deadline is eventually in the
\* orders list of a sendGroupOrder call (or stops being pending).
PendingOrderEventuallyHanded ==
  \A i \in 1..MaxOrders :
     AwaitsAggregation(i) ~> (Handed(i) \/ ~AwaitsAggregation(i))

StoreErrorSparesOtherKeys ==
  \A n \in DOMAIN ended :
     (/\ ended[n].outcome = "failed"
      /\ ended[n].quiet
      /\ ended[n].errAt[2] \in Pairs) =>
       \A k \in ended[n].elig :
          k # <<ended[n].errAt[2], ended[n].errAt[1]>> =>
            GroupOrdersOf(group_orders, k[1][1], k[1][2],
                          deliverySlots[k[2]].id, ended[n].today) # {}

\* The ids of the orders that are pending for a key.
PendingIds(restaurant_id, building_id, slotId, date) ==
  {i \in DOMAIN orders : /\ orders[i].status = "pending"
                         /\ orders[i].restaurant_id = restaurant_id
                         /\ orders[i].building_id = building_id
                         /\ orders[i].delivery_slot = slotId
                         /\ orders[i].order_date = date}

\* The sum of total_price over a set of order ids.
RECURSIVE TotalPriceOf(_)
TotalPriceOf(ids) ==
  IF ids = {} THEN 0
  ELSE LET i == CHOOSE j \in ids : TRUE
       IN  orders[i].total_price + TotalPriceOf(ids \ {i})

DeadlinePassedExactlyAfter ==
  probe.asked # "none" =>
    LET deadline == IF probe.hours * 60 + probe.minutes - probe.lead > 0
                    THEN probe.hours * 60 + probe.minutes - probe.lead
                    ELSE 0
    IN  /\ probe.passed = (probe.now > deadline)
        /\ (probe.hours = 13 /\ probe.minutes = 0 /\ probe.lead = 150) =>
              /\ probe.now \in {629, 630} => ~probe.passed
              /\ probe.now = 631 => probe.passed

\* C5 witness: isDeadlinePassedForSlot("13:00", 630) has answered false.
AtDeadlineMinuteWitness ==
  /\ probe.asked = "order"
  /\ probe.time = Slot1300
  /\ probe.now = 630
  /\ ~probe.passed

\* A step in which runAll starts while no earlier sweep is in flight.
TickStep ==
  /\ \A s \in SweepIds : sweeps[s].pc = "idle"
  /\ ended' # <<>> \/ \E s \in SweepIds : sweeps'[s].pc = "await"

\* The reservations of a key.
ReservationsOf(rs, building_id, restaurant_id, slotId, date) ==
  {x \in BagToSet(rs) : /\ x.building_id = building_id
                        /\ x.restaurant_id = restaurant_id
                        /\ x.delivery_slot = slotId
                        /\ x.order_date = date}

\* The users the notifyLobbyCancelled calls log[from + 1 ..] of a key went to.
NotifiedSince(log, from, building_id, restaurant_id, slot, date) ==
  {log[n].telegramUserId :
     n \in {m \in DOMAIN log : /\ m > from
                                /\ log[m].building_id = building_id
                                /\ log[m].restaurant_id = restaurant_id
                                /\ log[m].slotTime = slot.time
                                /\ log[m].order_date = date}}

\* The lobby deadline of a configured slot has passed on the clock.
LobbyDeadlineOver(slot) ==
  clock.min > (IF ConfiguredMinutes[slot.id] - lobbyLeadMinutes > 0
               THEN ConfiguredMinutes[slot.id] - lobbyLeadMinutes ELSE 0)

\* What a lobby sweep has to do with the key (pair p, slot) of today.
QuorumDecision(p, slot) ==
  LET rows == ReservationsOf(reservations, p[2], p[1], slot.id, clock.day)
      count == Cardinality(rows)
      notified == NotifiedSince(lobbyLog', Len(lobbyLog), p[2], p[1], slot, clock.day)
  IN  /\ (0 < count /\ count < minLobbyParticipants) =>
            /\ ReservationsOf(reservations', p[2], p[1], slot.id, clock.day) = {}
            /\ notified = {TelegramIdOf(x.user_id) : x \in rows}
      /\ count >= minLobbyParticipants =>
            /\ ReservationsOf(reservations', p[2], p[1], slot.id, clock.day) = rows
            /\ notified = {}
      /\ count = 0 => notified = {}

\* C6: in a lobby sweep, for each key the sweep visits (a pair of
\* restaurant_buildings, a slot whose lobby deadline has passed, today): with
\* 0 < count < minLobbyParticipants every reservation of the key is deleted and
\* exactly its users are notified; with count >= minLobbyParticipants the
\* reservations stay and nobody is notified; with count = 0 nobody is notified.
QuorumDecidedPerVisitedKey ==
  [][TickStep =>
       \A p \in restaurant_buildings, i \in DOMAIN deliverySlots :
          LobbyDeadlineOver(deliverySlots[i]) => QuorumDecision(p, deliverySlots[i])]_vars

\* C6 witness: a sweep has cancelled a lobby of one reservation and has left
\* a lobby of two in place.
QuorumBoundaryWitness ==
  /\ ended # <<>>
  /\ Len(lobbyLog) = 1
  /\ \E p \in restaurant_buildings, sl \in OrderSlots :
        /\ isLobbyDeadlinePassed(sl, getNowMinutesInAppTz)
        /\ countReservations(reservations, p[2], p[1], sl, getTodayInAppTz) = 2

\* C7: after a lobby sweep no key of today that is in the reservation table
\* with its lobby deadline passed is left under quorum: the sweep has deleted
\* the reservations of every such key and notified each of its users.
NoUnderQuorumKeyLeftUnswept ==
  [][TickStep =>
       \A p \in Pairs, i \in DOMAIN deliverySlots :
          LobbyDeadlineOver(deliverySlots[i]) => QuorumDecision(p, deliverySlots[i])]_vars


(***************************************************************************)
(* Errors inside the sweeps.                                               *)
(***************************************************************************)
\* C11: a tick whose lobby sweep failed on a store call has still run the
\* aggregation sweep: every key that was eligible when the tick started has
\* its group order when the tick is over.
LobbyFailureSparesAggregation ==
  \A n \in DOMAIN ended :
     ended[n].outcome = "uncaught" =>
       \A k \in ended[n].elig :
          GroupOrdersOf(group_orders, k[1][1], k[1][2], deliverySlots[k[2]].id,
                        ended[n].today) # {}

\* C12: whatever has thrown in a sweep, once the timer is armed the process
\* is running (so the next interval runs a tick) and the caller holds the
\* stop handle.
SchedulerSurvivesSweepErrors ==
  scheduler.timer => (scheduler.process = "running" /\ scheduler.handle)

HangingSendBlocksNoKey ==
  \A s \in SweepIds :
     (sweeps[s].pc = "await" /\ sweeps[s].quiet) =>
       \A k \in sweeps[s].elig :
          GroupOrdersOf(group_orders, k[1][1], k[1][2], deliverySlots[k[2]].id,
                        sweeps[s].today) # {}

ActiveOrdersOf(user_id, building_id, restaurant_id, delivery_slot, order_date) ==
  {i \in DOMAIN orders :
     /\ orders[i].user_id = user_id
     /\ orders[i].building_id = building_id
     /\ orders[i].restaurant_id = restaurant_id
     /\ orders[i].delivery_slot = delivery_slot
     /\ orders[i].order_date = order_date
     /\ orders[i].status \in
          {"pending", "confirmed", "restaurant_confirmed", "preparing", "ready"}}

\* C16: whatever POST /api/orders, cancellations, PATCH status updates and
\* accept / reject decisions have run, a user has at most one active order
\* per (building, restaurant, delivery slot, order date).
AtMostOneActiveOrderPerUserKey ==
  \A u \in Users, p \in Pairs, sl \in OrderSlots, d \in Days :
     Cardinality(ActiveOrdersOf(u, p[2], p[1], sl, d)) <= 1

\* C17: a step that cancels the only active order a user has for a key
\* leaves findActiveByUserAndSlot with no row for that user and key, and a
\* POST /api/orders of the user for the key is then accepted.
CancelFreesUserKey ==
  [][\A i \in DOMAIN orders :
       LET o == orders[i]
       IN  (/\ findActiveByUserAndSlot(o.user_id, o.building_id, o.restaurant_id,
                                       o.delivery_slot, o.order_date) = {i}
            /\ orders'[i].status = "cancelled")
           => /\ findActiveByUserAndSlot(o.user_id, o.building_id, o.restaurant_id,
                                         o.delivery_slot, o.order_date)' = {}
              /\ PostOrderAccepted(o.user_id, o.restaurant_id, o.building_id,
                                   o.delivery_slot)']_vars

\* C17 witness: the first order of a user is cancelled and the order the
\* user placed after it for the same key is pending.
ReorderedAfterCancelWitness ==
  /\ Len(orders) = 2
  /\ orders[1].user_id = orders[2].user_id
  /\ orders[1].restaurant_id = orders[2].restaurant_id
  /\ orders[1].building_id = orders[2].building_id
  /\ orders[1].delivery_slot = orders[2].delivery_slot
  /\ orders[1].order_date = orders[2].order_date
  /\ orders[1].status = "cancelled"
  /\ orders[2].status = "pending"

(***************************************************************************)
(* The reservation table.                                                  *)
(***************************************************************************)
\* The key and the user of the call probe records.
CountOfCall(rs) ==
  countReservations(rs, probe.row.building_id, probe.row.restaurant_id,
                    probe.row.delivery_slot, probe.row.order_date)

\* The rows of rs that are not the row, respectively not of the key, of the
\* call are in rs2 as often as in rs, and rs2 has no other row beside them.
SameElsewhere(rs, rs2, touched) ==
  /\ \A x \in BagToSet(rs) \ touched : CopiesIn(x, rs2) = CopiesIn(x, rs)
  /\ BagToSet(rs2) \ touched \subseteq BagToSet(rs)

\* C18: the table holds a (building, restaurant, slot, date, user) at most
\* once, and countReservations of every key is the number of distinct users
\* reserved for it; after addReservation the user's row is there, an add of a
\* row that was there leaves the table as it was, and an add of a new row
\* raises the count of its key by one, all other rows staying.
AddReservationIdempotent ==
  /\ \A x \in BagToSet(reservations) : CopiesIn(x, reservations) = 1
  /\ \A p \in Pairs, sl \in OrderSlots, d \in Days :
        countReservations(reservations, p[2], p[1], sl, d)
          = Cardinality({x.user_id : x \in SlotReservations(reservations, p[2], p[1],
                                                            sl, d)})
  /\ probe.op = "add" =>
        /\ BagIn(probe.row, reservations)
        /\ BagIn(probe.row, probe.before) => reservations = probe.before
        /\ ~BagIn(probe.row, probe.before) =>
              CountOfCall(reservations) = CountOfCall(probe.before) + 1
        /\ SameElsewhere(probe.before, reservations, {probe.row})

\* C18 witness: the same addReservation call was made twice in a row and
\* the key has one reservation.
DuplicateAddWitness ==
  /\ probe.op = "add"
  /\ probe.lastOp = "add"
  /\ probe.lastRow = probe.row
  /\ CountOfCall(reservations) = 1

\* C19: after removeReservation the user has no reservation for the key
\* (hasUserReservation is false), the count of the key is lower by one if
\* the reservation was there and the table is as it was if it was not, the
\* rows of other users and other keys stay; and a removeReservation right
\* after the addReservation of the same row that was new leaves the table as
\* it was before the add.
RemoveReservationUndoesAdd ==
  probe.op = "remove" =>
    /\ ~hasUserReservation(reservations, TelegramIdOf(probe.row.user_id),
                           probe.row.building_id, probe.row.restaurant_id,
                           probe.row.delivery_slot, probe.row.order_date)
    /\ BagIn(probe.row, probe.before) =>
          CountOfCall(reservations) = CountOfCall(probe.before) - 1
    /\ ~BagIn(probe.row, probe.before) => reservations = probe.before
    /\ SameElsewhere(probe.before, reservations, {probe.row})
    /\ (probe.lastOp = "add" /\ probe.lastRow = probe.row
          /\ ~BagIn(probe.row, probe.prior)) =>
          /\ reservations = probe.prior
          /\ CountOfCall(reservations) = CountOfCall(probe.prior)

\* C19 witness: a reservation was added to a key where another user has one
\* and then removed again; the other user's reservation is there.
AddThenRemoveWitness ==
  /\ probe.op = "remove"
  /\ probe.lastOp = "add"
  /\ probe.lastRow = probe.row
  /\ ~BagIn(probe.row, probe.prior)
  /\ CountOfCall(probe.before) = 2
  /\ CountOfCall(reservations) = 1

\* The bag of the elements of a sequence.
BagOfSeq(seq) ==
  [v \in {seq[k] : k \in DOMAIN seq} |-> Cardinality({k \in DOMAIN seq : seq[k] = v})]

\* C20: after deleteReservationsForSlot the key has no reservation, the
\* call has returned the telegram ids of the users who had one, one per
\* deleted reservation, and the reservations of every other key are as they
\* were.
DeleteReservationsForSlotFrame ==
  probe.op = "delete" =>
    LET gone == ReservationsOf(probe.before, probe.row.building_id,
                               probe.row.restaurant_id, probe.row.delivery_slot,
                               probe.row.order_date)
    IN  /\ CountOfCall(reservations) = 0
        /\ Len(probe.returned) = CountOfCall(probe.before)
        /\ BagOfSeq(probe.returned)
             = [t \in {TelegramIdOf(x.user_id) : x \in gone} |->
                  Cardinality({x \in gone : TelegramIdOf(x.user_id) = t})]
        /\ SameElsewhere(probe.before, reservations, gone)
        /\ \A x \in gone : ~BagIn(x, reservations)

\* C20 witness: a key with two reservations was deleted while another key
\* had one, which is still there.
DeleteTwoOfThreeWitness ==
  /\ probe.op = "delete"
  /\ Len(probe.returned) = 2
  /\ BagCardinality(reservations) = 1

(***************************************************************************)
(* What the sweeps write.                                                  *)
(***************************************************************************)
\* A step in which the lobby sweep has run: runAll started with no sweep in
\* flight, or notifyLobbyCancelled was called.
LobbySweepStep == TickStep \/ lobbyLog' # lobbyLog

\* C21: in a step in which the lobby sweep runs, no reservation is inserted
\* (every row is in the table at most as often as before), no order changes,
\* every existing group order stays as it is, and every group order added in
\* the step is the one of a sendGroupOrder call of the aggregation sweep made
\* in that step. (The thresholds are constants of the module.)
LobbySweepOnlyDeletes ==
  [][LobbySweepStep =>
       /\ \A x \in BagToSet(reservations') :
             CopiesIn(x, reservations') <= CopiesIn(x, reservations)
       /\ orders' = orders
       /\ \A g \in DOMAIN group_orders :
             g \in DOMAIN group_orders' /\ group_orders'[g] = group_orders[g]
       /\ \A g \in DOMAIN group_orders' \ DOMAIN group_orders :
             \E n \in DOMAIN sendLog' \ DOMAIN sendLog :
                sendLog'[n].groupOrderId = g]_vars

\* C21 witness: a tick has cancelled a lobby and its aggregation sweep has
\* created a group order; the orders are all pending and the reservations are
\* gone.
LobbyCancelledOrdersKeptWitness ==
  /\ lobbyLog # <<>>
  /\ reservations = EmptyBag
  /\ Len(group_orders) = 1
  /\ orders # <<>>
  /\ \A i \in DOMAIN orders : orders[i].status = "pending"

TickStarts ==
  /\ \A s \in SweepIds : sweeps[s].pc = "await" => sweeps'[s] = sweeps[s]
  /\ \/ ended' # <<>> /\ ended' # ended
     \/ \E s \in SweepIds : sweeps[s].pc = "idle" /\ sweeps'[s].pc = "await"

\* C23: once the stop handle has been called no runAll starts any more; and
\* the call itself changes no table and no sweep in flight (it neither waits
\* for it nor aborts it).
StopStartsNoTickAbortsNone ==
  [][/\ scheduler.sendsAtStop # -1 =>
          (scheduler'.sendsAtStop = scheduler.sendsAtStop /\ ~TickStarts)
     /\ (scheduler.sendsAtStop = -1 /\ scheduler'.sendsAtStop # -1) =>
          /\ sweeps' = sweeps
          /\ group_orders' = group_orders
          /\ sendLog' = sendLog
          /\ orders' = orders]_vars

\* C23 witness: stop() was called while a sweep was waiting for its first
\* notification; the sweep has gone on since, created the second group order
\* and made the second sendGroupOrder call.
SweepContinuesAfterStopWitness ==
  /\ scheduler.sendsAtStop = 1
  /\ ~scheduler.timer
  /\ Len(sendLog) = 2
  /\ Len(group_orders) = 2

\* The keys sweep s has still to visit in the slot it is in.
KeysAhead(s) ==
  {<<sweeps[s].groups[k], sweeps[s].slotIdx>> : k \in DOMAIN sweeps[s].groups}

\* C24: whatever way two sweeps in flight interleave, a group order is only
\* ever inserted for a key that has none, no run ends on the UNIQUE
\* constraint, and two sweeps never wait on the notification of one group
\* order.
OverlapNeverHitsUnique ==
  [][/\ \A g \in DOMAIN group_orders' \ DOMAIN group_orders :
          GroupOrdersOf(group_orders, group_orders'[g].restaurant_id,
                        group_orders'[g].building_id, group_orders'[g].delivery_slot,
                        group_orders'[g].order_date) = {}
     /\ \A n \in DOMAIN ended' : ended'[n].outcome # "constraint"
     /\ \A s, t \in SweepIds :
          (s # t /\ sweeps'[s].pc = "await" /\ sweeps'[t].pc = "await") =>
             sweeps'[s].call # sweeps'[t].call]_vars

\* C24 witness: two sweeps are in flight and one of them has still to visit a
\* key for which the other has created the group order meanwhile.
OvertakenSweepWitness ==
  /\ \A s \in SweepIds : sweeps[s].pc = "await"
  /\ \E s \in SweepIds : \E k \in KeysAhead(s) :
        GroupOrdersOf(group_orders, k[1][1], k[1][2], deliverySlots[k[2]].id,
                      sweeps[s].today) # {}

\* A step of the aggregation sweep that creates a group order or ends a run.
AggregationStep ==
  \/ Len(group_orders') > Len(group_orders)
  \/ Len(sendLog') > Len(sendLog)
  \/ ended' # <<>> /\ ended' # ended

InterruptedKeys ==
  {<<ended[n].errAt[2], ended[n].errAt[1]>> :
     n \in {m \in DOMAIN ended : ended[m].outcome = "failed"}}

\* C26: a run that ends by a store error writes no group order, makes no
\* sendGroupOrder call and changes no order; and the tick that follows it
\* without error comes to the interrupted key again: if the key is still due,
\* that tick has created its group order or waits for a notification with the
\* key still ahead of it, and it has created it when it reaches its end
\* undisturbed.
StoreErrorCommitsNothingKeyRetried ==
  [][/\ (ended' # <<>> /\ ended' # ended /\ ended'[1].outcome = "failed") =>
          /\ group_orders' = group_orders
          /\ sendLog' = sendLog
          /\ orders' = orders
     /\ (TickStarts /\ (ended' # <<>> => ended'[1].outcome # "failed")) =>
          \A k \in InterruptedKeys \cap Eligible(getNowMinutesInAppTz, getTodayInAppTz) :
             \/ GroupOrdersOf(group_orders', k[1][1], k[1][2], deliverySlots[k[2]].id,
                               getTodayInAppTz) # {}
             \/ \E s \in SweepIds :
                   /\ sweeps[s].pc = "idle"
                   /\ sweeps'[s].pc = "await"
                   /\ \/ <<k[1], k[2]>> \in
                           {<<sweeps'[s].groups[j], sweeps'[s].slotIdx>> :
                              j \in DOMAIN sweeps'[s].groups}
                      \/ sweeps'[s].slotIdx < k[2]
     /\ (ended' # <<>> /\ ended'[1].outcome = "done" /\ ended'[1].quiet) =>
          \A k \in ended'[1].elig :
             Cardinality(GroupOrdersOf(group_orders', k[1][1], k[1][2],
                                       deliverySlots[k[2]].id, ended'[1].today)) = 1]_vars

\* C26 witness: a run has just been interrupted by a store error at a key
\* that is still due and has no group order, while the other sweep waits for
\* the notification of the only group order there is; the next tick finds the
\* interrupted key again.
RetriedKeyWitness ==
  /\ ended # <<>>
  /\ ended[1].outcome = "failed"
  /\ InterruptedKeys \cap Eligible(getNowMinutesInAppTz, getTodayInAppTz) # {}
  /\ Len(group_orders) = 1
  /\ \E s \in SweepIds : sweeps[s].pc = "await"

\* C27: a group order is inserted as pending_restaurant; afterwards only its
\* status changes, from pending_restaurant to accepted or rejected, in a step
\* of the restaurant's button (which also settles the orders); an accepted or
\* rejected row never changes again; and no step of the scheduler changes or
\* removes a row that exists.
GroupOrderStatusLifecycle ==
  [][/\ Len(group_orders') >= Len(group_orders)
     /\ \A g \in DOMAIN group_orders' \ DOMAIN group_orders :
          group_orders'[g].status = "pending_restaurant"
     /\ \A g \in DOMAIN group_orders :
          /\ group_orders'[g] = [group_orders[g] EXCEPT !.status = group_orders'[g].status]
          /\ group_orders[g].status \in {"accepted", "rejected"} =>
               group_orders'[g] = group_orders[g]
          /\ group_orders'[g].status # group_orders[g].status =>
               /\ group_orders[g].status = "pending_restaurant"
               /\ group_orders'[g].status \in {"accepted", "rejected"}
               /\ group_orders[g].restaurant_id \in restaurants
               /\ orders' # orders
               /\ ~AggregationStep
     /\ AggregationStep =>
          \A g \in DOMAIN group_orders : group_orders'[g] = group_orders[g]]_vars

\* C27 witness: one group order has been accepted, the other rejected, and a
\* tick has run to its end since.
DecidedGroupOrdersWitness ==
  /\ ended # <<>>
  /\ ended[1].outcome = "done"
  /\ \E g, h \in DOMAIN group_orders :
        group_orders[g].status = "accepted" /\ group_orders[h].status = "rejected"

RejectedGroupNotices ==
  {x.id : x \in {y \in settledNotices : y.kind = "group" /\ y.outcome = "rejected"}}

\* C29: whatever ticks run and overlap, each sendGroupOrder call is made in
\* the step that creates the group order whose id it carries, no two calls
\* carry the same id, and no call is made again for a group order whose call
\* was rejected.
SendGroupOrderOncePerGroupOrder ==
  [][/\ \A n \in DOMAIN sendLog' \ DOMAIN sendLog :
          /\ sendLog'[n].groupOrderId \in DOMAIN group_orders' \ DOMAIN group_orders
          /\ sendLog'[n].groupOrderId \notin RejectedGroupNotices
     /\ \A n, m \in DOMAIN sendLog' :
          sendLog'[n].groupOrderId = sendLog'[m].groupOrderId => n = m
     /\ \A g \in RejectedGroupNotices :
          Cardinality({n \in DOMAIN sendLog' : sendLog'[n].groupOrderId = g}) = 1]_vars

\* C29 witness: the call for the first group order was rejected, the sweep
\* went on to create and notify the second, and a tick started afterwards
\* with the first key's orders still pending has found nothing to do.
FailedNotificationNotRetriedWitness ==
  /\ 1 \in RejectedGroupNotices
  /\ Len(sendLog) = 2
  /\ Len(group_orders) = 2
  /\ ended # <<>>
  /\ ended[1].outcome = "done"
  /\ ended[1].quiet
  /\ ended[1].elig = {}
  /\ PendingIds(group_orders[1].restaurant_id, group_orders[1].building_id,
                group_orders[1].delivery_slot, group_orders[1].order_date) # {}

\* A step in which a sweep that waited for its notification goes on.
ResumeStep == \E s \in SweepIds : sweeps[s].pc = "await" /\ sweeps'[s] # sweeps[s]

\* C30: a step of the aggregation sweep leaves every order, user, restaurant,
\* building and link as it is; the continuation of a sweep leaves the
\* reservations and the lobby notices alone, and in the step of runAll the
\* reservations change only with the lobby sweep's cancellations; so each order
\* of a new sendGroupOrder call is still pending after the step and its user's
\* DELETE /api/orders/:id passes all its checks.
AggregationWritesGroupOrdersOnly ==
  [][AggregationStep =>
       /\ orders' = orders
       /\ users' = users
       /\ restaurants' = restaurants
       /\ buildings' = buildings
       /\ restaurant_buildings' = restaurant_buildings
       /\ ResumeStep => reservations' = reservations /\ lobbyLog' = lobbyLog
       /\ reservations' # reservations => Len(lobbyLog') > Len(lobbyLog)
       /\ \A i \in 1..MaxOrders, u \in Users :
            (\E n \in DOMAIN sendLog' \ DOMAIN sendLog :
                \E k \in DOMAIN sendLog'[n].orders :
                   sendLog'[n].orders[k].id = i /\ sendLog'[n].orders[k].userId = u) =>
              /\ orders'[i].status = "pending"
              /\ CanCancel(i, u)']_vars

\* C30 witness: an order that is in the call of a group order still waiting
\* for the restaurant has been cancelled by its user afterwards, while the
\* lobby holds a reservation.
CancelledAfterAggregationWitness ==
  /\ reservations # EmptyBag
  /\ \E n \in DOMAIN sendLog :
        /\ group_orders[sendLog[n].groupOrderId].status = "pending_restaurant"
        /\ \E k \in DOMAIN sendLog[n].orders :
              orders[sendLog[n].orders[k].id].status = "cancelled"

\* The ids of the orders listed in the sendGroupOrder call of group order g.
ShownOrders(g) ==
  UNION {{sendLog[n].orders[k].id : k \in DOMAIN sendLog[n].orders} :
           n \in {m \in DOMAIN sendLog : sendLog[m].groupOrderId = g}}

\* C31: when the restaurant accepts a group order, the orders that become
\* restaurant_confirmed in that step are exactly the orders that were listed
\* in the group order's sendGroupOrder call.
AcceptConfirmsShownOrders ==
  [][\A g \in DOMAIN group_orders :
       (group_orders[g].status = "pending_restaurant"
        /\ group_orders'[g].status = "accepted") =>
         {i \in DOMAIN orders : /\ orders[i].status # "restaurant_confirmed"
                                /\ orders'[i].status = "restaurant_confirmed"}
           = ShownOrders(g)]_vars

\* C32: a key that a lobby sweep has found at quorum after its lobby deadline
\* stays activated for the day: no later sweep deletes its reservations or
\* sends a cancellation for it, whatever joins and leaves come after.
ActivatedLobbyStaysActivated ==
  [][\A k \in activated :
       /\ \A n \in DOMAIN lobbyLog' \ DOMAIN lobbyLog :
            ~(/\ lobbyLog'[n].restaurant_id = k[1]
              /\ lobbyLog'[n].building_id = k[2]
              /\ lobbyLog'[n].slotTime = k[3]
              /\ lobbyLog'[n].order_date = k[4])
       /\ Len(lobbyLog') > Len(lobbyLog) =>
            countReservations(reservations', k[2], k[1], k[3], k[4])
              = countReservations(reservations, k[2], k[1], k[3], k[4])]_vars

\* C33: for every configured slot the join handler refuses exactly when the
\* lobby sweep treats the lobby deadline as passed, and from then on, while
\* the day lasts, no step raises the reservation count of a key of that slot.
CountNeverGrowsAfterLobbyDeadline ==
  [][\A sl \in SlotIds :
       /\ LobbyDeadlineHasPassed(sl, getNowMinutesInAppTz)
            = isLobbyDeadlinePassed(sl, getNowMinutesInAppTz)
       /\ (isLobbyDeadlinePassed(sl, getNowMinutesInAppTz) /\ clock'.day = clock.day) =>
            \A p \in Pairs :
               countReservations(reservations', p[2], p[1], sl, clock.day)
                 <= countReservations(reservations, p[2], p[1], sl, clock.day)]_vars

\* C33 witness: after the lobby deadline of 13:00 a sweep has cancelled one
\* lobby, another lobby of the slot still has its reservations, and the table
\* has room for one more.
JoinClosedAfterDeadlineWitness ==
  /\ isLobbyDeadlinePassed(Slot1300, getNowMinutesInAppTz)
  /\ lobbyLog # <<>>
  /\ \E p \in Pairs :
        countReservations(reservations, p[2], p[1], Slot1300, clock.day)
          >= minLobbyParticipants
  /\ BagCardinality(reservations) < MaxReservations

\* Two notifyLobbyCancelled calls are for the same user and the same key.
SameUserAndKey(a, b) ==
  /\ a.telegramUserId = b.telegramUserId
  /\ a.building_id = b.building_id
  /\ a.restaurant_id = b.restaurant_id
  /\ a.slotTime = b.slotTime
  /\ a.order_date = b.order_date

\* C34: over the ticks, joins and leaves of a day no user gets a second
\* lobby-cancelled notification for the same key: the calls logged are for
\* pairwise different user and key, and a step that makes a call for a key
\* leaves the key without reservations.
OneLobbyCancelledNoticePerUserKey ==
  [][/\ \A n, m \in DOMAIN lobbyLog' :
          SameUserAndKey(lobbyLog'[n], lobbyLog'[m]) => n = m
     /\ \A n \in DOMAIN lobbyLog' \ DOMAIN lobbyLog :
          countReservations(reservations', lobbyLog'[n].building_id,
                            lobbyLog'[n].restaurant_id, lobbyLog'[n].slotTime,
                            lobbyLog'[n].order_date) = 0]_vars

\* C34 witness: one user has been told of the cancellation of two lobbies of
\* one restaurant and building, that of 13:00 and that of 18:45, once each,
\* while another reservation is still in the table.
TwiceCancelledUserWitness ==
  /\ Len(lobbyLog) = 2
  /\ lobbyLog[1].telegramUserId = lobbyLog[2].telegramUserId
  /\ lobbyLog[1].slotTime = Slot1300
  /\ lobbyLog[2].slotTime = Slot1845
  /\ lobbyLog[1].building_id = lobbyLog[2].building_id
  /\ lobbyLog[1].restaurant_id = lobbyLog[2].restaurant_id
  /\ reservations # EmptyBag

(***************************************************************************)
(* The lobby sweep next to reservations of another day.                    *)
(***************************************************************************)
\* The tables at the start of a day: every pair is linked, and one
\* reservation of yesterday, day 0, is still in lobby_reservations (its lobby
\* was at quorum in yesterday's sweeps and one user left it late in the
\* evening).
InitStale ==
  /\ clock = [day |-> 1, min |-> 630]
  /\ orders = <<>>
  /\ group_orders = <<>>
  /\ restaurants = Restaurants
  /\ buildings = Buildings
  /\ sweeps = [s \in SweepIds |-> IdleSweep]
  /\ sendLog = <<>>
  /\ ended = <<>>
  /\ users = Users
  /\ restaurant_buildings = Pairs
  /\ reservations = SetToBag({ReservationRow(1, 1, Slot1300, 0, 1)})
  /\ lobbyLog = <<>>
  /\ probe = NoProbe
  /\ scheduler = SchedulerStarted
  /\ settledNotices = {}
  /\ twin = NoTwin
  /\ activated = {}

SpecStale == InitStale /\ [][NextLobby]_vars

\* C35: a tick deletes a reservation only if its order_date is today, the
\* lobby deadline of its slot has passed on the clock reading of the tick, and
\* the count of its key is strictly between 0 and minLobbyParticipants; every
\* such key loses all its rows, and the rows of every other key are in the
\* table after the tick as often as before it.
LobbySweepDeletesOnlyDueUnderQuorumKeys ==
  [][TickStep =>
       \A x \in BagToSet(reservations) \cup BagToSet(reservations') :
          LET count == countReservations(reservations, x.building_id, x.restaurant_id,
                                         x.delivery_slot, x.order_date)
              due == clock.min > Max(toMinutes(x.delivery_slot) - lobbyLeadMinutes, 0)
          IN  CopiesIn(x, reservations') # CopiesIn(x, reservations) =>
                 /\ x.order_date = clock.day
                 /\ due
                 /\ 0 < count /\ count < minLobbyParticipants
                 /\ CopiesIn(x, reservations') = 0]_vars

\* C35 witness: a sweep has cancelled a lobby of today after its lobby
\* deadline, and left in place the reservation of yesterday for the same
\* building, restaurant and slot and a reservation of today for a slot whose
\* lobby deadline has not passed.
OtherKeysKeptWitness ==
  /\ ended # <<>>
  /\ \E n \in DOMAIN lobbyLog : lobbyLog[n].slotTime = Slot1300
  /\ BagIn(ReservationRow(1, 1, Slot1300, clock.day - 1, 1), reservations)
  /\ countReservations(reservations, 1, 1, Slot1300, clock.day) = 0
  /\ ~isLobbyDeadlinePassed(Slot1845, clock.min)
  /\ \E p \in Pairs : countReservations(reservations, p[2], p[1], Slot1845, clock.day) = 1

(***************************************************************************)
(* GET /api/delivery-slots next to the scheduler, at every minute.         *)
(***************************************************************************)
deliveryPriceCentsWhenNotFull == 8300

\* toTime of the handler: `${hours padded to 2}:${minutes padded to 2}`.
toTime(minutesTotal) ==
  Digits(minutesTotal \div 60, 2) \o <<":">> \o Digits(minutesTotal % 60, 2)

\* A slot that is no longer available at its deadline minute.
isAvailableStrictlyBefore(time, nowMinutes) ==
  nowMinutes < Max(toMinutes(time) - orderLeadMinutes, 0)

\* const isAvailable = nowMinutes <= deadlineMinutes
isAvailable(time, nowMinutes) ==
  LET slotMinutes == toMinutes(time)
      deadlineMinutes == Max(slotMinutes - orderLeadMinutes, 0)
  IN  nowMinutes <= deadlineMinutes

\* The entry of one slot in the response.
SlotEntry(slot, nowMinutes, orderDate, withLobby, buildingId, restaurantId, telegramUserId) ==
  LET slotMinutes == toMinutes(slot.time)
      deadlineMinutes == Max(slotMinutes - orderLeadMinutes, 0)
      lobbyDeadlineMinutes == Max(slotMinutes - lobbyLeadMinutes, 0)
      base == [id |-> slot.id, time |-> slot.time, deadline |-> toTime(deadlineMinutes),
               isAvailable |-> isAvailable(slot.time, nowMinutes)]
      currentParticipants == countReservations(reservations, buildingId, restaurantId,
                                               slot.id, orderDate)
      isActivated == currentParticipants >= minLobbyParticipants
  IN  IF ~withLobby THEN base
      ELSE [id |-> base.id, time |-> base.time, deadline |-> base.deadline,
            isAvailable |-> base.isAvailable,
            lobbyDeadline |-> toTime(lobbyDeadlineMinutes),
            minParticipants |-> minLobbyParticipants,
            currentParticipants |-> currentParticipants,
            deliveryPriceCents |-> IF isActivated THEN 0 ELSE deliveryPriceCentsWhenNotFull,
            isActivated |-> isActivated,
            userInLobby |-> hasUserReservation(reservations, telegramUserId, buildingId,
                                               restaurantId, slot.id, orderDate)]

\* GET /api/delivery-slots: the response is kept with the clock reading it
\* was computed from; no table is written.
GetDeliverySlots(withLobby, buildingId, restaurantId, telegramUserId) ==
  LET nowMinutes == getNowMinutesInAppTz
      orderDate == getTodayInAppTz
  IN  /\ probe.asked = "none"
      /\ probe' = [asked |-> "delivery-slots", now |-> nowMinutes,
                   data |-> [i \in DOMAIN deliverySlots |->
                               SlotEntry(deliverySlots[i], nowMinutes, orderDate, withLobby,
                                         buildingId, restaurantId, telegramUserId)]]
      /\ UNCHANGED <<clock, orders, group_orders, restaurants, buildings, sweeps, sendLog,
                     ended, lobbyVars, scheduler, settledNotices, twin, activated>>

\* The process at any minute of the day, its tables empty.
InitSlots ==
  /\ \E n \in MinutesOfDay : clock = [day |-> 1, min |-> n]
  /\ orders = <<>>
  /\ group_orders = <<>>
  /\ restaurants = {1}
  /\ buildings = Buildings
  /\ sweeps = [s \in SweepIds |-> IdleSweep]
  /\ sendLog = <<>>
  /\ ended = <<>>
  /\ users = Users
  /\ restaurant_buildings = {}
  /\ reservations = EmptyBag
  /\ lobbyLog = <<>>
  /\ probe = NoProbe
  /\ scheduler = SchedulerStarted
  /\ settledNotices = {}
  /\ twin = NoTwin
  /\ activated = {}

NextSlots ==
  \E withLobby \in BOOLEAN, b \in Buildings, r \in Restaurants, u \in Users :
     GetDeliverySlots(withLobby, b, r, TelegramIdOf(u))

SpecSlots == InitSlots /\ [][NextSlots]_vars

\* The slots a sweep that reads nowMinutes goes on to aggregate: the loop
\* skips the others.
DueSlotIndexes(nowMinutes) ==
  {i \in DOMAIN deliverySlots : isDeadlinePassedForSlot(deliverySlots[i].id, nowMinutes)}

\* C36: in every response of GET /api/delivery-slots, each slot is reported
\* available exactly when the scheduler, at the clock reading the response was
\* computed from, does not treat the slot's order deadline as passed; no slot
\* is both available and due for aggregation.
AvailabilityAgreesWithScheduler ==
  probe.asked = "delivery-slots" =>
    /\ Len(probe.data) = Len(deliverySlots)
    /\ \A k \in DOMAIN probe.data :
          /\ probe.data[k].id = deliverySlots[k].id
          /\ probe.data[k].isAvailable = ~isDeadlinePassedForSlot(deliverySlots[k].id, probe.now)
          /\ ~(probe.data[k].isAvailable /\ k \in DueSlotIndexes(probe.now))

\* C36 witness: at the deadline minute of the 13:00 slot (10:30) the response
\* reports 13:00 available, and 18:45 and 23:00 as well.
AvailableAtDeadlineMinuteWitness ==
  /\ probe.asked = "delivery-slots"
  /\ probe.now = toMinutes(Slot1300) - orderLeadMinutes
  /\ \A k \in DOMAIN probe.data : probe.data[k].isAvailable

(***************************************************************************)
(* config.minLobbyParticipants from the MIN_LOBBY_PARTICIPANTS setting.    *)
(***************************************************************************)
MaxSettingLen == 3

\* The values of the setting: not set, every string of at most MaxSettingLen
\* characters (digits, signs, a blank, a letter, a dot), and digit runs of
\* 10, 308 and 309 digits.
Settings ==
  LET chars == {"0", "1", "3", "-", "+", " ", "a", "."}
      run(c, n) == [i \in 1..n |-> c]
  IN  {[set |-> FALSE, text |-> <<>>]}
      \cup {[set |-> TRUE, text |-> t] :
              t \in UNION {[1..k -> chars] : k \in 0..MaxSettingLen}}
      \cup {[set |-> TRUE, text |-> t] :
              t \in {run("9", 10), run("9", 308), <<"1">> \o run("0", 308),
                     run("9", 309), <<"-">> \o run("9", 309)}}

\* Number values: NaN, an integer below 10^9 in magnitude, a finite Number of
\* magnitude 10^9 or more (integer-valued: exact below 2^53, a multiple of a
\* power of two above), and +/- Infinity.
NaN == [kind |-> "NaN"]
Whole(n) == [kind |-> "integer", n |-> n]
Large(sign) == [kind |-> "large", sign |-> sign]
Infinite(sign) == [kind |-> "Infinity", sign |-> sign]

\* The decimal digits of 2^1024 - 2^970: an integer rounds to a finite Number
\* exactly when it is below this one.
OverflowDigits ==
  <<
     "1", "7", "9", "7", "6", "9", "3", "1", "3", "4", "8", "6", "2", "3", "1", "5",
     "8", "0", "7", "9", "3", "7", "2", "8", "9", "7", "1", "4", "0", "5", "3", "0",
     "3", "4", "1", "5", "0", "7", "9", "9", "3", "4", "1", "3", "2", "7", "1", "0",
     "0", "3", "7", "8", "2", "6", "9", "3", "6", "1", "7", "3", "7", "7", "8", "9",
     "8", "0", "4", "4", "4", "9", "6", "8", "2", "9", "2", "7", "6", "4", "7", "5",
     "0", "9", "4", "6", "6", "4", "9", "0", "1", "7", "9", "7", "7", "5", "8", "7",
     "2", "0", "7", "0", "9", "6", "3", "3", "0", "2", "8", "6", "4", "1", "6", "6",
     "9", "2", "8", "8", "7", "9", "1", "0", "9", "4", "6", "5", "5", "5", "5", "4",
     "7", "8", "5", "1", "9", "4", "0", "4", "0", "2", "6", "3", "0", "6", "5", "7",
     "4", "8", "8", "6", "7", "1", "5", "0", "5", "8", "2", "0", "6", "8", "1", "9",
     "0", "8", "9", "0", "2", "0", "0", "0", "7", "0", "8", "3", "8", "3", "6", "7",
     "6", "2", "7", "3", "8", "5", "4", "8", "4", "5", "8", "1", "7", "7", "1", "1",
     "5", "3", "1", "7", "6", "4", "4", "7", "5", "7", "3", "0", "2", "7", "0", "0",
     "6", "9", "8", "5", "5", "5", "7", "1", "3", "6", "6", "9", "5", "9", "6", "2",
     "2", "8", "4", "2", "9", "1", "4", "8", "1", "9", "8", "6", "0", "8", "3", "4",
     "9", "3", "6", "4", "7", "5", "2", "9", "2", "7", "1", "9", "0", "7", "4", "1",
     "6", "8", "4", "4", "4", "3", "6", "5", "5", "1", "0", "7", "0", "4", "3", "4",
     "2", "7", "1", "1", "5", "5", "9", "6", "9", "9", "5", "0", "8", "0", "9", "3",
     "0", "4", "2", "8", "8", "0", "1", "7", "7", "9", "0", "4", "1", "7", "4", "4",
     "9", "7", "7", "9", "2" >>

\* parseInt(str, 10): leading white space is skipped, a sign is read, then the
\* longest run of decimal digits; no digit gives NaN; the integer read is
\* rounded to a Number.
parseInt(str) ==
  LET n == Len(str)
      nonWhite == {k \in 1..n : str[k] # " "}
      start == IF nonWhite = {} THEN n + 1
               ELSE CHOOSE k \in nonWhite : \A j \in nonWhite : k <= j
      signed == start <= n /\ str[start] \in {"-", "+"}
      sign == IF signed /\ str[start] = "-" THEN -1 ELSE 1
      from == IF signed THEN start + 1 ELSE start
      noDigit == {k \in from..n : str[k] \notin DOMAIN DigitValue}
      to == IF noDigit = {} THEN n
            ELSE (CHOOSE k \in noDigit : \A j \in noDigit : k <= j) - 1
      nonZero == {k \in from..to : str[k] # "0"}
      first == IF nonZero = {} THEN to + 1
               ELSE CHOOSE k \in nonZero : \A j \in nonZero : k <= j
      digits == to - first + 1
      \* a < b for digit strings of the same length
      DigitsBelow(a, b) ==
        \E k \in 1..Len(a) : /\ DigitValue[a[k]] < DigitValue[b[k]]
                              /\ \A j \in 1..(k - 1) : a[j] = b[j]
  IN  IF to < from THEN NaN
      ELSE IF digits <= 9 THEN Whole(sign * Number(str, first, to))
      ELSE IF digits < Len(OverflowDigits)
              \/ (digits = Len(OverflowDigits)
                  /\ DigitsBelow(SubSeq(str, first, to), OverflowDigits))
      THEN Large(sign)
      ELSE Infinite(sign)

\* Math.max(1, parseInt(env.MIN_LOBBY_PARTICIPANTS || '1', 10) || 1)
minLobbyParticipantsOf(setting) ==
  LET text == IF ~setting.set \/ setting.text = <<>> THEN <<"1">> ELSE setting.text
      parsed == parseInt(text)
      falsy == parsed.kind = "NaN" \/ (parsed.kind = "integer" /\ parsed.n = 0)
      \* Math.max(1, v) of a Number that is not NaN
      MathMaxOne(v) ==
        IF v.kind = "integer" THEN Whole(Max(1, v.n))
        ELSE IF v.sign = 1 THEN v ELSE Whole(1)
  IN  MathMaxOne(IF falsy THEN Whole(1) ELSE parsed)

\* count >= min for a count of reservations (below 10^9).
AtLeast(count, min) ==
  IF min.kind = "integer" THEN count >= min.n ELSE FALSE

\* The lobby sweep on a key of count reservations: neither
\* `if (count >= minLobbyParticipants) continue` nor `if (count === 0) continue`
\* is taken, so the reservations are deleted.
LobbyCancelledAt(count, min) == ~AtLeast(count, min) /\ count # 0

\* The process before config.ts is loaded, under each value of the setting.
InitConfig ==
  /\ clock = [day |-> 1, min |-> 630]
  /\ orders = <<>>
  /\ group_orders = <<>>
  /\ restaurants = {1}
  /\ buildings = Buildings
  /\ sweeps = [s \in SweepIds |-> IdleSweep]
  /\ sendLog = <<>>
  /\ ended = <<>>
  /\ users = Users
  /\ restaurant_buildings = {}
  /\ reservations = EmptyBag
  /\ lobbyLog = <<>>
  /\ \E setting \in Settings : probe = [asked |-> "none", env |-> setting]
  /\ scheduler = SchedulerStarted
  /\ settledNotices = {}
  /\ twin = NoTwin
  /\ activated = {}

\* config.ts is evaluated: minLobbyParticipants is fixed for the process.
LoadConfig ==
  /\ probe.asked = "none"
  /\ probe' = [asked |-> "config", env |-> probe.env,
               minLobbyParticipants |-> minLobbyParticipantsOf(probe.env)]
  /\ UNCHANGED <<clock, orders, group_orders, restaurants, buildings, sweeps, sendLog,
                 ended, lobbyVars, scheduler, settledNotices, twin, activated>>

\* The quorum decision of the lobby sweep, and isActivated of the slot list,
\* on a key of count reservations under the loaded minimum.
DecideLobby(count) ==
  /\ probe.asked = "config"
  /\ probe' = [asked |-> "decided", env |-> probe.env,
               minLobbyParticipants |-> probe.minLobbyParticipants,
               count |-> count,
               isActivated |-> AtLeast(count, probe.minLobbyParticipants),
               cancelled |-> LobbyCancelledAt(count, probe.minLobbyParticipants)]
  /\ UNCHANGED <<clock, orders, group_orders, restaurants, buildings, sweeps, sendLog,
                 ended, lobbyVars, scheduler, settledNotices, twin, activated>>

NextConfig == LoadConfig \/ \E count \in 0..MaxReservations : DecideLobby(count)

SpecConfig == InitConfig /\ [][NextConfig]_vars

\* C37: under every value of the setting the loaded minLobbyParticipants is
\* an integer >= 1, a key with no reservation is not activated, and under the
\* default (the setting not set) the value is 1 and no key is cancelled.
MinLobbyParticipantsIntegerAtLeastOne ==
  probe.asked \in {"config", "decided"} =>
    /\ \/ probe.minLobbyParticipants.kind = "integer" /\ probe.minLobbyParticipants.n >= 1
       \/ probe.minLobbyParticipants.kind = "large" /\ probe.minLobbyParticipants.sign = 1
    /\ ~probe.env.set => probe.minLobbyParticipants = Whole(1)
    /\ probe.asked = "decided" =>
          /\ probe.count = 0 => ~probe.isActivated
          /\ probe.minLobbyParticipants = Whole(1) => ~probe.cancelled
====
